---- MODULE Spec2Model ----
(***************************************************************************)
(* CodeSolAI: the task state machine (core/task_manager.py), the tool      *)
(* registry with its security gate and concurrency cap                     *)
(* (core/tool_registry.py, tools/base_tool.py, tools/filesystem_tool.py,   *)
(* tools/exec_tool.py, tools/network_tool.py) and the autonomous run of    *)
(* the orchestrator (core/enhanced_agent.py).                              *)
(***************************************************************************)
EXTENDS Integers, Sequences, FiniteSets, TLC

VARIABLES
    tasks,            \* TaskManager.tasks: the task records, in creation order
    execution_order,  \* TaskManager.execution_order: sequence of task ids
    current_task_id,  \* TaskManager.current_task_id (NoId when unset)
    tm_events,        \* the task manager's callbacks fired so far, in order
    lastCall,         \* the last task-manager call and what it returned
    sem_value,        \* ToolRegistry.semaphore: the free execution slots
    reg_pc,           \* per execute_tool call: where the coroutine stands
    reg_call,         \* per call: the tool name and parameters it was given
    reg_result,       \* per call: what execute_tool returned (<<>> before)
    reg_events,       \* per call: the registry callbacks fired, in order
    reg_body,         \* per call: "none", or how far _execute_internal got
    decomp,           \* the last decompose_task call: its inputs and outcome
    run_pc,           \* process_autonomous: where the run stands
    run_input,        \* process_autonomous: the prompt and the options
    task_ids,         \* process_autonomous: what decompose_task returned
    next_task,        \* process_autonomous: the task of this iteration
    task_result,      \* process_autonomous: what _execute_single_task returned
    execution_results, \* the results of the tools that task executed
    run_log,          \* all_results: what each executed task returned, in order
    provider_calls,   \* number of calls made to the capability provider
    run_result,       \* what process_autonomous returned
    parse_pc,         \* the action parser: idle, parsed, parsed again
    parse_input,      \* the response given to the action parser
    parse_actions,    \* what _parse_actions_from_response returned
    parse_again,      \* what it returned for the same response again
    multi_pc,         \* execute_multiple_tools: idle, gathering, done
    multi_calls,      \* execute_multiple_tools: its list of tool calls
    multi_finished,   \* the calls of the list in the order they ended
    multi_results,    \* what execute_multiple_tools returned
    http,             \* BaseProvider.make_request: position, retry count, attempts
    config_file,      \* Config: the content of .codesolairc, or NoFile
    default_config,   \* Config.default_config
    config_last,      \* the last call of Config and what it returned
    config_sets,      \* the number of set calls so far
    run_count         \* the autonomous runs the agent has begun after the first

tmVars == <<tasks, execution_order, current_task_id, tm_events, lastCall>>
regVars == <<sem_value, reg_pc, reg_call, reg_result, reg_events, reg_body>>
runVars == <<decomp, run_pc, run_input, task_ids, next_task, task_result,
             execution_results, run_log, provider_calls, run_result>>
parseVars == <<parse_pc, parse_input, parse_actions, parse_again>>
multiVars == <<multi_pc, multi_calls, multi_finished, multi_results>>
httpVars == <<http>>
cfgVars == <<config_file, default_config, config_last, config_sets>>
vars == <<tmVars, regVars, runVars, parseVars, multiVars, httpVars, cfgVars, run_count>>

----------------------------------------------------------------------------
(* Bounds of the task-manager model *)
MaxTasks == 2
MaxEvents == 3

(* Python None: NoId where a task id is expected, None elsewhere *)
NoId == 0
None == "None"

(* TaskState *)
NOT_STARTED == "not_started"
IN_PROGRESS == "in_progress"
COMPLETED == "completed"
FAILED == "failed"
CANCELLED == "cancelled"

TaskState == {NOT_STARTED, IN_PROGRESS, COMPLETED, FAILED, CANCELLED}
Terminal == {COMPLETED, FAILED, CANCELLED}

(* Task ids are uuid4 strings; the model names a task by its creation rank.
   UnknownId is an id no task carries. *)
UnknownId == 99
TaskIds == 1..Len(tasks)
CallIds == (1..MaxTasks) \cup {UnknownId}
Names == {"b", "a"}

(* datetime.now(): a logical clock that advances with every recorded event *)
Now == Len(tm_events) + 1

(* Task.metadata: the keys the code reads.  file_path is <<>> or holds one
   path; file_content tells whether the key holds a non-empty text. *)
Metadata(template_based, project_type, file_path, file_content, auto_generated) ==
    [template_based |-> template_based, project_type |-> project_type,
     file_path |-> file_path, file_content |-> file_content,
     auto_generated |-> auto_generated]

NoMetadata == Metadata(FALSE, None, <<>>, FALSE, FALSE)

(* Task(...): a fresh record as the dataclass defaults build it *)
Task(name, parent_id, metadata) ==
    [name |-> name, state |-> NOT_STARTED, parent_id |-> parent_id,
     subtasks |-> <<>>, started_at |-> 0, completed_at |-> 0,
     error |-> None, result |-> None, progress |-> 0, metadata |-> metadata]

has_subtasks(task) == Len(task.subtasks) > 0

(* create_task on an explicit task map and execution order: the new task gets
   the next id, is appended to its parent's subtasks when the parent is known,
   and is appended to the execution order when it is a root or has no
   subtasks (a fresh task never has any). *)
CreateIn(ts, order, name, parent_id, metadata) ==
    LET id == Len(ts) + 1
        task == Task(name, parent_id, metadata)
        withTask == Append(ts, task)
        linked == IF parent_id # NoId /\ parent_id \in 1..Len(ts)
                  THEN [withTask EXCEPT ![parent_id].subtasks = Append(@, id)]
                  ELSE withTask
        order2 == IF parent_id = NoId \/ ~has_subtasks(task)
                  THEN Append(order, id) ELSE order
    IN  [tasks |-> linked, execution_order |-> order2, id |-> id]

create_task(name, parent_id, metadata) ==
    /\ Len(tasks) < MaxTasks
    /\ LET c == CreateIn(tasks, execution_order, name, parent_id, metadata)
       IN  /\ tasks' = c.tasks
           /\ execution_order' = c.execution_order
           /\ lastCall' = [op |-> "create", id |-> c.id, ret |-> TRUE]
    /\ UNCHANGED <<current_task_id, tm_events>>

(* get_next_task scanning the execution order from its end *)
LastNotStarted(ts, order) ==
    LET idx == {i \in 1..Len(order) :
                   order[i] \in 1..Len(ts) /\ ts[order[i]].state = NOT_STARTED}
    IN  IF idx = {} THEN NoId
        ELSE order[CHOOSE i \in idx : \A j \in idx : i >= j]

(* get_next_task: the first id of the execution order whose task is
   NOT_STARTED, or NoId *)
FirstNotStarted(ts, order) ==
    LET idx == {i \in 1..Len(order) :
                   order[i] \in 1..Len(ts) /\ ts[order[i]].state = NOT_STARTED}
    IN  IF idx = {} THEN NoId
        ELSE order[CHOOSE i \in idx : \A j \in idx : i <= j]

get_next_task == FirstNotStarted(tasks, execution_order)

(* start_task without its state check: a started task is started again *)
start_task_unchecked(task_id) ==
    IF task_id \notin TaskIds
    THEN /\ lastCall' = [op |-> "start", id |-> task_id, ret |-> FALSE]
         /\ UNCHANGED <<tasks, execution_order, current_task_id, tm_events>>
    ELSE /\ tasks' = [tasks EXCEPT ![task_id].state = IN_PROGRESS,
                                   ![task_id].started_at = Now]
         /\ current_task_id' = task_id
         /\ tm_events' = Append(tm_events, <<"task_start", task_id>>)
         /\ lastCall' = [op |-> "start", id |-> task_id, ret |-> TRUE]
         /\ UNCHANGED execution_order

(* start_task *)
start_task(task_id) ==
    IF task_id \notin TaskIds \/ tasks[task_id].state # NOT_STARTED
    THEN /\ lastCall' = [op |-> "start", id |-> task_id, ret |-> FALSE]
         /\ UNCHANGED <<tasks, execution_order, current_task_id, tm_events>>
    ELSE /\ tasks' = [tasks EXCEPT ![task_id].state = IN_PROGRESS,
                                   ![task_id].started_at = Now]
         /\ current_task_id' = task_id
         /\ tm_events' = Append(tm_events, <<"task_start", task_id>>)
         /\ lastCall' = [op |-> "start", id |-> task_id, ret |-> TRUE]
         /\ UNCHANGED execution_order

(* _all_tasks_complete: every task COMPLETED or CANCELLED *)
all_tasks_complete(ts) ==
    \A i \in 1..Len(ts) : ts[i].state \in {COMPLETED, CANCELLED}

(* complete_task without the reset of current_task_id *)
complete_task_keeps_current(task_id, result) ==
    IF task_id \notin TaskIds
    THEN /\ lastCall' = [op |-> "complete", id |-> task_id, ret |-> FALSE]
         /\ UNCHANGED <<tasks, execution_order, current_task_id, tm_events>>
    ELSE LET ts == [tasks EXCEPT ![task_id].state = COMPLETED,
                                 ![task_id].completed_at = Now,
                                 ![task_id].result = result,
                                 ![task_id].progress = 1]
             ev == Append(tm_events, <<"task_complete", task_id>>)
         IN  /\ tasks' = ts
             /\ tm_events' = IF all_tasks_complete(ts)
                             THEN Append(ev, <<"all_complete", 0>>) ELSE ev
             /\ lastCall' = [op |-> "complete", id |-> task_id, ret |-> TRUE]
             /\ UNCHANGED <<execution_order, current_task_id>>

(* complete_task *)
complete_task(task_id, result) ==
    IF task_id \notin TaskIds
    THEN /\ lastCall' = [op |-> "complete", id |-> task_id, ret |-> FALSE]
         /\ UNCHANGED <<tasks, execution_order, current_task_id, tm_events>>
    ELSE LET ts == [tasks EXCEPT ![task_id].state = COMPLETED,
                                 ![task_id].completed_at = Now,
                                 ![task_id].result = result,
                                 ![task_id].progress = 1]
             ev == Append(tm_events, <<"task_complete", task_id>>)
         IN  /\ tasks' = ts
             /\ current_task_id' =
                    IF current_task_id = task_id THEN NoId ELSE current_task_id
             /\ tm_events' = IF all_tasks_complete(ts)
                             THEN Append(ev, <<"all_complete", 0>>) ELSE ev
             /\ lastCall' = [op |-> "complete", id |-> task_id, ret |-> TRUE]
             /\ UNCHANGED execution_order

(* fail_task recording the failure without leaving IN_PROGRESS *)
fail_task_keeps_state(task_id, error) ==
    IF task_id \notin TaskIds
    THEN /\ lastCall' = [op |-> "fail", id |-> task_id, ret |-> FALSE]
         /\ UNCHANGED <<tasks, execution_order, current_task_id, tm_events>>
    ELSE /\ tasks' = [tasks EXCEPT ![task_id].error = error]
         /\ current_task_id' =
                IF current_task_id = task_id THEN NoId ELSE current_task_id
         /\ tm_events' = Append(tm_events, <<"task_failed", task_id>>)
         /\ lastCall' = [op |-> "fail", id |-> task_id, ret |-> TRUE]
         /\ UNCHANGED execution_order

(* fail_task *)
fail_task(task_id, error) ==
    IF task_id \notin TaskIds
    THEN /\ lastCall' = [op |-> "fail", id |-> task_id, ret |-> FALSE]
         /\ UNCHANGED <<tasks, execution_order, current_task_id, tm_events>>
    ELSE /\ tasks' = [tasks EXCEPT ![task_id].state = FAILED,
                                   ![task_id].completed_at = Now,
                                   ![task_id].error = error]
         /\ current_task_id' =
                IF current_task_id = task_id THEN NoId ELSE current_task_id
         /\ tm_events' = Append(tm_events, <<"task_failed", task_id>>)
         /\ lastCall' = [op |-> "fail", id |-> task_id, ret |-> TRUE]
         /\ UNCHANGED execution_order

(* get_progress_summary *)
CountState(ts, s) == Cardinality({i \in 1..Len(ts) : ts[i].state = s})

(* completed_tasks / total_tasks * 100, kept exact as the fraction
   <<numerator, denominator>>; 0 when there is no task *)
progress_percentage(completed_tasks, total_tasks) ==
    IF total_tasks > 0 THEN <<completed_tasks * 100, total_tasks>> ELSE <<0, 1>>

(* get_progress_summary with the failed tasks counted as completed too *)
get_progress_summary_finished ==
    [total_tasks |-> Len(tasks),
     completed_tasks |-> CountState(tasks, COMPLETED) + CountState(tasks, FAILED),
     failed_tasks |-> CountState(tasks, FAILED),
     in_progress_tasks |-> CountState(tasks, IN_PROGRESS),
     progress_percentage |->
         progress_percentage(CountState(tasks, COMPLETED) + CountState(tasks, FAILED),
                             Len(tasks)),
     current_task |-> current_task_id]

get_progress_summary ==
    [total_tasks |-> Len(tasks),
     completed_tasks |-> CountState(tasks, COMPLETED),
     failed_tasks |-> CountState(tasks, FAILED),
     in_progress_tasks |-> CountState(tasks, IN_PROGRESS),
     progress_percentage |->
         progress_percentage(CountState(tasks, COMPLETED), Len(tasks)),
     current_task |-> current_task_id]

----------------------------------------------------------------------------
(* The tool registry, the tools' validation and their execution *)

(* Bounds of the registry model *)
NumCalls == 4
MaxPathLen == 2

(* ToolRegistry.__init__: max_concurrent *)
max_concurrent == 3

Calls == 1..NumCalls

(* Strings the tools search character by character are sequences of
   one-character strings. *)
Contains(sub, s) ==
    \E i \in 0..(Len(s) - Len(sub)) : SubSeq(s, i + 1, i + Len(sub)) = sub

(* str.lower() on the letters the modelled inputs use *)
LowerCh(ch) ==
    CASE ch = "R" -> "r" [] ch = "M" -> "m" [] ch = "D" -> "d" [] OTHER -> ch

Lower(s) == [i \in 1..Len(s) |-> LowerCh(s[i])]

(* shlex.split(command)[0] for commands without quotes or escapes: the first
   run of characters that are not blanks (<<>> when there is none) *)
FirstToken(s) ==
    LET nonblank == {i \in 1..Len(s) : s[i] # " "}
    IN  IF nonblank = {} THEN <<>>
        ELSE LET b == CHOOSE i \in nonblank : \A j \in nonblank : i <= j
                 ends == {j \in b..Len(s) : s[j] = " "} \cup {Len(s) + 1}
                 e == CHOOSE i \in ends : \A j \in ends : i <= j
             IN  SubSeq(s, b, e - 1)

(* ---- paths: Path(file_path).resolve() ---- *)
(* A path is [abs, parts]; the process runs in Cwd. *)
Cwd == <<"home", "proj">>

RECURSIVE Normalize(_, _)
Normalize(parts, acc) ==
    IF parts = <<>> THEN acc
    ELSE LET h == Head(parts)
         IN  Normalize(Tail(parts),
                       IF h = ".."
                       THEN (IF acc = <<>> THEN acc
                             ELSE SubSeq(acc, 1, Len(acc) - 1))
                       ELSE IF h = "." THEN acc
                       ELSE Append(acc, h))

Resolve(p) == Normalize(IF p.abs THEN p.parts ELSE Cwd \o p.parts, <<>>)

(* PurePath.relative_to succeeds exactly when base is a leading part *)
relative_to(resolved, base) ==
    /\ Len(base) <= Len(resolved)
    /\ SubSeq(resolved, 1, Len(base)) = base

(* PurePath.suffix of the file names the model uses *)
NameSuffix(name) ==
    CASE name = "a.txt" -> ".txt"
      [] name = "run.sh" -> ".sh"
      [] name = "app.py" -> ".py"
      [] name = "requirements.txt" -> ".txt"
      [] name \in {"base.html", "index.html", "login.html", "register.html",
                   "dashboard.html"} -> ".html"
      [] OTHER -> ""

PathSuffix(resolved) ==
    IF resolved = <<>> THEN "" ELSE NameSuffix(resolved[Len(resolved)])

(* FilesystemTool.__init__: allowed_paths (AgentConfig: ["./"]) and the
   default blocked_extensions *)
allowed_paths == <<[abs |-> FALSE, parts |-> <<".">>]>>
blocked_extensions == {".exe", ".bat", ".sh"}

(* ExecTool.__init__ under the agent's security_config: no allow-list
   (allowed_commands is None) and AgentConfig.blocked_commands, of which the
   model keeps "rm -rf", "sudo" and "dd" *)
exec_allowed_commands == <<>>
exec_blocked_commands ==
    << <<"r", "m", " ", "-", "r", "f">>, <<"s", "u", "d", "o">>, <<"d", "d">> >>

(* NetworkTool.__init__: the default blocked_domains, of which the model
   keeps "::1" and "0.0.0.0"; no allowed_domains *)
blocked_domains == << <<":", ":", "1">>, <<"0", ".", "0", ".", "0", ".", "0">> >>

(* ToolRegistry._register_default_tools, the tools the model keeps *)
FsTools == {"read_file", "write_file", "copy_file", "search_files"}
ExecTools ==
    {"execute_command", "install_package", "run_script", "check_command"}
NetTools == {"http_request"}
RegisteredTools == FsTools \cup ExecTools \cup NetTools

(* _get_required_parameters of the three tool classes *)
RequiredParams(tool) ==
    CASE tool = "read_file" -> <<"path">>
      [] tool = "write_file" -> <<"path", "content">>
      [] tool = "copy_file" -> <<"source", "destination">>
      [] tool = "search_files" -> <<"pattern">>
      [] tool = "execute_command" -> <<"command">>
      [] tool = "run_script" -> <<"command">>
      [] tool = "install_package" -> <<"package">>
      [] tool = "http_request" -> <<"url">>
      [] OTHER -> <<>>

(* ToolValidation *)
Validation(errors) == [valid |-> errors = <<>>, errors |-> errors]

(* BaseTool.validate_action: every required parameter must be present *)
RECURSIVE MissingErrors(_, _)
MissingErrors(required, parameters) ==
    IF required = <<>> THEN <<>>
    ELSE (IF Head(required) \in DOMAIN parameters THEN <<>>
          ELSE <<"Required parameter is missing">>)
         \o MissingErrors(Tail(required), parameters)

base_validate_action(tool, parameters) ==
    Validation(MissingErrors(RequiredParams(tool), parameters))

(* FilesystemTool._validate_path *)
is_allowed(resolved) ==
    \E i \in 1..Len(allowed_paths) :
        relative_to(resolved, Resolve(allowed_paths[i]))

validate_path(file_path) ==
    LET resolved == Resolve(file_path)
    IN  Validation(
            (IF is_allowed(resolved) THEN <<>>
             ELSE <<"Path is not in allowed paths">>)
            \o (IF PathSuffix(resolved) \in blocked_extensions
                THEN <<"File extension is blocked">> ELSE <<>>))

(* paths_to_check that forgets the destination *)
paths_to_check_no_destination(parameters) ==
    SelectSeq(<<"path", "source">>, LAMBDA k : k \in DOMAIN parameters)

(* FilesystemTool.validate_action: path, source and destination, whichever
   are present, each go through _validate_path *)
paths_to_check(parameters) ==
    SelectSeq(<<"path", "source", "destination">>,
              LAMBDA k : k \in DOMAIN parameters)

RECURSIVE PathErrors(_, _)
PathErrors(keys, parameters) ==
    IF keys = <<>> THEN <<>>
    ELSE validate_path(parameters[Head(keys)]).errors
         \o PathErrors(Tail(keys), parameters)

fs_validate_action(tool, parameters) ==
    LET base == base_validate_action(tool, parameters)
    IN  IF ~base.valid THEN base
        ELSE Validation(PathErrors(paths_to_check(parameters), parameters))

(* ExecTool._is_command_safe: the reason the command is refused, <<>> when
   it is safe *)
is_command_safe(command) ==
    LET parts0 == FirstToken(command)
        lowered == Lower(command)
        blocked == {i \in 1..Len(exec_blocked_commands) :
                       Contains(exec_blocked_commands[i], lowered)}
    IN  IF parts0 = <<>> THEN <<"Empty command">>
        ELSE IF blocked # {} THEN <<"Command contains blocked term">>
        ELSE IF exec_allowed_commands # <<>>
                /\ ~\E i \in 1..Len(exec_allowed_commands) :
                       parts0 = exec_allowed_commands[i]
        THEN <<"Command not in allowed list">>
        ELSE <<>>

(* ExecTool.validate_action *)
exec_validate_action(tool, parameters) ==
    LET base == base_validate_action(tool, parameters)
    IN  IF ~base.valid THEN base
        ELSE IF "command" \in DOMAIN parameters
        THEN Validation(is_command_safe(parameters.command))
        ELSE base

(* shlex.quote on the characters the modelled inputs use: a string with a
   blank or a semicolon is put between single quotes *)
Quote(s) ==
    IF s = <<>> \/ \E i \in 1..Len(s) : s[i] \in {" ", ";"}
    THEN <<"'">> \o s \o <<"'">> ELSE s

(* The command lines the body of an execution tool gives to
   asyncio.create_subprocess_shell: none when the body raises before it gets
   there (a parameter it reads is missing, the package manager is unknown) *)
shell_commands(tool, parameters) ==
    CASE tool = "execute_command" ->
             IF "command" \in DOMAIN parameters
             THEN <<parameters.command>> ELSE <<>>
      [] tool = "install_package" ->
             IF "package" \notin DOMAIN parameters THEN <<>>
             ELSE LET manager == IF "manager" \in DOMAIN parameters
                                 THEN parameters.manager ELSE "pip"
                  IN  IF manager = "pip"
                      THEN << <<"p", "i", "p", " ", "i", "n", "s", "t", "a",
                                "l", "l", " ">> \o parameters.package >>
                      ELSE IF manager = "npm"
                      THEN << <<"n", "p", "m", " ", "i", "n", "s", "t", "a",
                                "l", "l", " ">> \o parameters.package >>
                      ELSE IF manager = "uv"
                      THEN << <<"u", "v", " ", "a", "d", "d", " ">>
                              \o parameters.package >>
                      ELSE <<>>
      [] tool = "run_script" ->
             IF "script_path" \notin DOMAIN parameters THEN <<>>
             ELSE << <<"p", "y", "t", "h", "o", "n", " ">>
                     \o Quote(parameters.script_path) >>
      [] tool = "check_command" ->
             IF "command" \notin DOMAIN parameters THEN <<>>
             ELSE << <<"w", "h", "i", "c", "h", " ">>
                     \o Quote(parameters.command) >>
      [] OTHER -> <<>>

(* NetworkTool._validate_url on a parsed url [scheme, hostname] *)
validate_url(url) ==
    IF url.scheme \notin {"http", "https"}
    THEN <<"Unsupported URL scheme">>
    ELSE IF url.hostname = <<>> THEN <<"Invalid URL: no hostname">>
    ELSE IF \E i \in 1..Len(blocked_domains) :
                Contains(blocked_domains[i], Lower(url.hostname))
    THEN <<"Domain is blocked">>
    ELSE <<>>

(* NetworkTool.validate_action *)
net_validate_action(tool, parameters) ==
    LET base == base_validate_action(tool, parameters)
    IN  IF ~base.valid THEN base
        ELSE IF "url" \in DOMAIN parameters
        THEN Validation(validate_url(parameters.url))
        ELSE base

(* tool.validate_action, by the class of the registered tool *)
validate_action(tool, parameters) ==
    IF tool \in FsTools THEN fs_validate_action(tool, parameters)
    ELSE IF tool \in ExecTools THEN exec_validate_action(tool, parameters)
    ELSE net_validate_action(tool, parameters)

(* BaseTool.execute: the three dictionaries it can return *)
ValidationFailed(validation) ==
    [success |-> FALSE, error |-> "Validation failed",
     validation_errors |-> validation.errors, result |-> None]

ToolSuccess ==
    [success |-> TRUE, error |-> None, validation_errors |-> <<>>,
     result |-> "payload"]

ToolFailure(message) ==
    [success |-> FALSE, error |-> message, validation_errors |-> <<>>,
     result |-> None]

(* BaseTool.execute up to the call of _execute_internal: the dictionary it
   returns without entering the body, <<>> when the body is entered *)
execute_gate(tool, parameters) ==
    LET validation == validate_action(tool, parameters)
    IN  IF ~validation.valid THEN <<ValidationFailed(validation)>> ELSE <<>>

(* BaseTool.execute after _execute_internal returned or raised *)
execute_finish(raised) ==
    IF raised THEN ToolFailure("exception message") ELSE ToolSuccess

(* ToolRegistry.execute_tool: the dictionaries it returns *)
NotFound(tool) ==
    [success |-> FALSE, error |-> "Tool not found", result |-> <<>>,
     tool |-> tool]

ExecutionResult(tool, inner) ==
    [success |-> TRUE, error |-> None, result |-> <<inner>>, tool |-> tool]

(* an execute_tool that reports the unregistered tool through the error
   callback *)
execute_tool_enter_notifies(c, call) ==
    /\ reg_pc[c] = "idle"
    /\ reg_call' = [reg_call EXCEPT ![c] = <<call>>]
    /\ IF call.tool \notin RegisteredTools
       THEN /\ reg_pc' = [reg_pc EXCEPT ![c] = "done"]
            /\ reg_result' = [reg_result EXCEPT ![c] = <<NotFound(call.tool)>>]
            /\ reg_events' = [reg_events EXCEPT ![c] = Append(@, "tool_error")]
       ELSE /\ reg_pc' = [reg_pc EXCEPT ![c] = "waiting"]
            /\ UNCHANGED <<reg_result, reg_events>>
    /\ UNCHANGED <<sem_value, reg_body>>

(* execute_tool, first part: an unregistered tool is answered at once,
   any other call queues for a slot of the semaphore *)
execute_tool_enter(c, call) ==
    /\ reg_pc[c] = "idle"
    /\ reg_call' = [reg_call EXCEPT ![c] = <<call>>]
    /\ IF call.tool \notin RegisteredTools
       THEN /\ reg_pc' = [reg_pc EXCEPT ![c] = "done"]
            /\ reg_result' = [reg_result EXCEPT ![c] = <<NotFound(call.tool)>>]
       ELSE /\ reg_pc' = [reg_pc EXCEPT ![c] = "waiting"]
            /\ UNCHANGED reg_result
    /\ UNCHANGED <<sem_value, reg_events, reg_body>>

(* a semaphore that never makes a caller wait *)
slot_always_free == TRUE

(* asyncio.Semaphore: a caller passes "async with self.semaphore" only while
   a slot is free *)
slot_free == sem_value > 0

(* execute_tool, inside "async with self.semaphore" up to the first
   suspension: take a slot, fire on_tool_start, run tool.execute as far as the
   body. A call the validation refuses returns at once: tool.execute hands
   back its dictionary, execute_tool wraps it, fires on_tool_complete and
   leaves the "async with", which frees the slot. *)
execute_tool_acquire(c) ==
    /\ reg_pc[c] = "waiting"
    /\ slot_free
    /\ LET call == reg_call[c][1]
           gate == execute_gate(call.tool, call.parameters)
       IN  IF gate # <<>>
           THEN /\ reg_pc' = [reg_pc EXCEPT ![c] = "done"]
                /\ reg_result' = [reg_result EXCEPT
                       ![c] = <<ExecutionResult(call.tool, gate[1])>>]
                /\ reg_events' = [reg_events EXCEPT
                       ![c] = @ \o <<"tool_start", "tool_complete">>]
                /\ UNCHANGED <<sem_value, reg_body>>
           ELSE /\ reg_pc' = [reg_pc EXCEPT ![c] = "body"]
                /\ sem_value' = sem_value - 1
                /\ reg_events' = [reg_events EXCEPT
                       ![c] = Append(@, "tool_start")]
                /\ reg_body' = [reg_body EXCEPT ![c] = "entered"]
                /\ UNCHANGED reg_result
    /\ UNCHANGED reg_call

(* an execute_tool that keeps its slot when the body of the tool raised *)
execute_tool_finish_keeps_slot(c, raised) ==
    /\ reg_pc[c] = "body"
    /\ reg_body[c] = "entered"
    /\ LET call == reg_call[c][1]
       IN  /\ reg_result' = [reg_result EXCEPT
                  ![c] = <<ExecutionResult(call.tool, execute_finish(raised))>>]
           /\ reg_events' = [reg_events EXCEPT ![c] = Append(@, "tool_complete")]
    /\ reg_pc' = [reg_pc EXCEPT ![c] = "done"]
    /\ reg_body' = [reg_body EXCEPT
           ![c] = IF raised THEN "raised" ELSE "returned"]
    /\ sem_value' = IF raised THEN sem_value ELSE sem_value + 1
    /\ UNCHANGED reg_call

(* execute_tool, after the body: _execute_internal returned or raised,
   BaseTool.execute turned either into a dictionary, execute_tool wraps it,
   fires on_tool_complete and frees the slot *)
execute_tool_finish(c, raised) ==
    /\ reg_pc[c] = "body"
    /\ reg_body[c] = "entered"
    /\ LET call == reg_call[c][1]
       IN  /\ reg_result' = [reg_result EXCEPT
                  ![c] = <<ExecutionResult(call.tool, execute_finish(raised))>>]
           /\ reg_events' = [reg_events EXCEPT ![c] = Append(@, "tool_complete")]
    /\ reg_pc' = [reg_pc EXCEPT ![c] = "done"]
    /\ reg_body' = [reg_body EXCEPT
           ![c] = IF raised THEN "raised" ELSE "returned"]
    /\ sem_value' = sem_value + 1
    /\ UNCHANGED reg_call

(* ExecTool.__init__: security_config.get('max_execution_time', 30) under
   the agent's security_config, which holds the key with AgentConfig's
   value None; <<>> stands for None, <<n>> for n seconds *)
max_execution_time == <<>>

(* The timeout _execute_command gives to asyncio.wait_for *)
command_timeout(tool, parameters) ==
    IF tool = "check_command" THEN <<5>>
    ELSE IF "timeout" \in DOMAIN parameters THEN <<parameters.timeout>>
    ELSE max_execution_time

(* The subprocess of an execution tool does not finish: process.communicate
   never returns *)
subprocess_hangs(c) ==
    /\ reg_pc[c] = "body"
    /\ reg_body[c] = "entered"
    /\ shell_commands(reg_call[c][1].tool, reg_call[c][1].parameters) # <<>>
    /\ reg_body' = [reg_body EXCEPT ![c] = "hung"]
    /\ UNCHANGED <<sem_value, reg_pc, reg_call, reg_result, reg_events>>

(* asyncio.wait_for on a hung subprocess: with a timeout the process is
   killed, TimeoutError is raised and _execute_command returns its failure
   dictionary, which BaseTool.execute and execute_tool wrap as any returned
   value; with timeout None wait_for never returns *)
execute_tool_timeout(c) ==
    /\ reg_pc[c] = "body"
    /\ reg_body[c] = "hung"
    /\ command_timeout(reg_call[c][1].tool, reg_call[c][1].parameters) # <<>>
    /\ reg_result' = [reg_result EXCEPT
           ![c] = <<ExecutionResult(reg_call[c][1].tool, execute_finish(FALSE))>>]
    /\ reg_events' = [reg_events EXCEPT ![c] = Append(@, "tool_complete")]
    /\ reg_pc' = [reg_pc EXCEPT ![c] = "done"]
    /\ reg_body' = [reg_body EXCEPT ![c] = "timed out"]
    /\ sem_value' = sem_value + 1
    /\ UNCHANGED reg_call

InitReg ==
    /\ sem_value = max_concurrent
    /\ reg_pc = [c \in Calls |-> "idle"]
    /\ reg_call = [c \in Calls |-> <<>>]
    /\ reg_result = [c \in Calls |-> <<>>]
    /\ reg_events = [c \in Calls |-> <<>>]
    /\ reg_body = [c \in Calls |-> "none"]


(* The inputs of the model *)
PathComps == {"..", "etc", "a.txt", "run.sh"}

RECURSIVE SeqsUpTo(_, _)
SeqsUpTo(S, n) ==
    IF n = 0 THEN {<<>>}
    ELSE LET shorter == SeqsUpTo(S, n - 1)
         IN  shorter \cup {Append(q, x) : q \in shorter, x \in S}

Paths == {[abs |-> a, parts |-> q] :
             a \in BOOLEAN, q \in SeqsUpTo(PathComps, MaxPathLen)}

Commands ==
    { <<"l", "s">>, <<" ">>, <<"a", "d", "d">>, <<"s", "u", "d", "o", " ", "l", "s">>,
      <<"R", "M", " ", "-", "r", "f">>, <<"r", "m", " ", "x">> }

(* Package names and script paths: a plain one, one that carries a second
   command with a blocked term, one that is a blocked term *)
Packages ==
    { <<"x">>, <<"x", ";", "s", "u", "d", "o", " ", "l", "s">>,
      <<"s", "u", "d", "o">> }

Urls ==
    { [scheme |-> "https", hostname |-> <<"a", ".", "b">>],
      [scheme |-> "ftp", hostname |-> <<"a", ".", "b">>],
      [scheme |-> "http", hostname |-> <<>>],
      [scheme |-> "http", hostname |-> <<":", ":", "1">>],
      [scheme |-> "http", hostname |-> <<"x", "0", ".", "0", ".", "0", ".", "0">>] }

FsInputs ==
    {[tool |-> "read_file", parameters |-> [path |-> p]] : p \in Paths}
    \cup {[tool |-> "write_file", parameters |-> [path |-> p, content |-> "text"]] :
             p \in Paths}
    \cup {[tool |-> "write_file", parameters |-> [content |-> "text"]]}
    \cup {[tool |-> "copy_file", parameters |-> [source |-> p, destination |-> q]] :
             p \in Paths, q \in Paths}
    \cup {[tool |-> "copy_file", parameters |-> [source |-> p]] : p \in Paths}
    \cup {[tool |-> "search_files", parameters |-> [pattern |-> "*.py"]]}
    \cup {[tool |-> "search_files", parameters |-> [pattern |-> "*.py", path |-> p]] :
             p \in Paths}

ExecInputs ==
    {[tool |-> "execute_command", parameters |-> [command |-> cmd]] :
        cmd \in Commands}
    \cup {[tool |-> "execute_command", parameters |-> [cwd |-> "."]]}
    \cup {[tool |-> "install_package", parameters |-> [package |-> pkg]] :
              pkg \in Packages}
    \cup {[tool |-> "install_package",
           parameters |-> [package |-> pkg, manager |-> "npm"]] :
              pkg \in Packages}
    \cup {[tool |-> "install_package", parameters |-> [manager |-> "pip"]]}
    \cup {[tool |-> "run_script",
           parameters |-> [command |-> cmd, script_path |-> pkg]] :
              cmd \in {<<"l", "s">>, <<"r", "m", " ", "x">>}, pkg \in Packages}
    \cup {[tool |-> "run_script", parameters |-> [script_path |-> pkg]] :
              pkg \in Packages}
    \cup {[tool |-> "check_command", parameters |-> [command |-> cmd]] :
              cmd \in Commands}

NetInputs ==
    {[tool |-> "http_request", parameters |-> [url |-> u]] : u \in Urls}
    \cup {[tool |-> "http_request", parameters |-> [method |-> "GET"]]}

UnknownInputs == {[tool |-> "no_such_tool", parameters |-> [path |-> "x"]]}

ToolInputs == FsInputs \cup ExecInputs \cup NetInputs \cup UnknownInputs

(* The inputs of the concurrent callers: an unregistered tool, a call the
   validation refuses and one it lets through *)
CoreInputs ==
    UnknownInputs
    \cup {[tool |-> "read_file",
           parameters |-> [path |-> [abs |-> TRUE, parts |-> <<"etc">>]]],
          [tool |-> "write_file",
           parameters |-> [path |-> [abs |-> FALSE, parts |-> <<"a.txt">>],
                           content |-> "text"]]}

(* Concurrent execute_tool calls (execute_multiple_tools gathers such calls) *)
RegEnter == \E c \in Calls, call \in CoreInputs : execute_tool_enter(c, call)

RegAcquire == \E c \in Calls : execute_tool_acquire(c)

RegFinish == \E c \in Calls, raised \in BOOLEAN : execute_tool_finish(c, raised)

NextReg ==
    \/ RegEnter /\ UNCHANGED <<tmVars, runVars, parseVars, multiVars, httpVars, cfgVars, run_count>>
    \/ RegAcquire /\ UNCHANGED <<tmVars, runVars, parseVars, multiVars, httpVars, cfgVars, run_count>>
    \/ RegFinish /\ UNCHANGED <<tmVars, runVars, parseVars, multiVars, httpVars, cfgVars, run_count>>

(* The calls numbered in the order in which they are made *)
RegEnterInOrder ==
    \E c \in Calls, call \in CoreInputs :
        /\ \A d \in Calls : d < c => reg_pc[d] # "idle"
        /\ execute_tool_enter(c, call)

NextRegInOrder ==
    \/ RegEnterInOrder /\ UNCHANGED <<tmVars, runVars, parseVars, multiVars, httpVars, cfgVars, run_count>>
    \/ RegAcquire /\ UNCHANGED <<tmVars, runVars, parseVars, multiVars, httpVars, cfgVars, run_count>>
    \/ RegFinish /\ UNCHANGED <<tmVars, runVars, parseVars, multiVars, httpVars, cfgVars, run_count>>

(* Calls of the execution tools, with and without a timeout of their own *)
CommandInputs ==
    {[tool |-> "execute_command", parameters |-> [command |-> <<"l", "s">>]],
     [tool |-> "execute_command",
      parameters |-> [command |-> <<"l", "s">>, timeout |-> 5]],
     [tool |-> "execute_command",
      parameters |-> [command |-> <<"r", "m", " ", "x">>]],
     [tool |-> "install_package", parameters |-> [package |-> <<"x">>]],
     [tool |-> "check_command", parameters |-> [command |-> <<"l", "s">>]]}

(* The number of callers that run commands at the same time *)
MaxCommandCalls == 2

CommandEnter ==
    \E c \in 1..MaxCommandCalls :
        /\ reg_pc[c] = "idle"
        /\ \E call \in CommandInputs : execute_tool_enter(c, call)

CommandHangs == \E c \in Calls : subprocess_hangs(c)

CommandTimeout == \E c \in Calls : execute_tool_timeout(c)

NextCommand ==
    \/ CommandEnter /\ UNCHANGED <<tmVars, runVars, parseVars, multiVars, httpVars, cfgVars, run_count>>
    \/ RegAcquire /\ UNCHANGED <<tmVars, runVars, parseVars, multiVars, httpVars, cfgVars, run_count>>
    \/ CommandHangs /\ UNCHANGED <<tmVars, runVars, parseVars, multiVars, httpVars, cfgVars, run_count>>
    \/ CommandTimeout /\ UNCHANGED <<tmVars, runVars, parseVars, multiVars, httpVars, cfgVars, run_count>>
    \/ RegFinish /\ UNCHANGED <<tmVars, runVars, parseVars, multiVars, httpVars, cfgVars, run_count>>

(* One execute_tool call with any of the modelled inputs *)
ToolEnter ==
    /\ reg_pc[1] = "idle"
    /\ \E call \in ToolInputs : execute_tool_enter(1, call)

NextTool ==
    \/ ToolEnter /\ UNCHANGED <<tmVars, runVars, parseVars, multiVars, httpVars, cfgVars, run_count>>
    \/ RegAcquire /\ UNCHANGED <<tmVars, runVars, parseVars, multiVars, httpVars, cfgVars, run_count>>
    \/ RegFinish /\ UNCHANGED <<tmVars, runVars, parseVars, multiVars, httpVars, cfgVars, run_count>>

----------------------------------------------------------------------------
(* The task manager driven by an arbitrary caller *)
InitTM ==
    /\ tasks = <<>>
    /\ execution_order = <<>>
    /\ current_task_id = NoId
    /\ tm_events = <<>>
    /\ lastCall = [op |-> "init", id |-> 0, ret |-> TRUE]

CreateTask ==
    \E name \in Names, parent_id \in {NoId, 1} :
        /\ Len(tm_events) < MaxEvents
        /\ create_task(name, parent_id, NoMetadata)

StartTask ==
    \E task_id \in CallIds : Len(tm_events) < MaxEvents /\ start_task(task_id)

CompleteTask ==
    \E task_id \in CallIds :
        Len(tm_events) < MaxEvents /\ complete_task(task_id, "result")

FailTask ==
    \E task_id \in CallIds :
        Len(tm_events) < MaxEvents /\ fail_task(task_id, "error")

NextTM ==
    \/ CreateTask /\ UNCHANGED <<regVars, runVars, parseVars, multiVars, httpVars, cfgVars, run_count>>
    \/ StartTask /\ UNCHANGED <<regVars, runVars, parseVars, multiVars, httpVars, cfgVars, run_count>>
    \/ CompleteTask /\ UNCHANGED <<regVars, runVars, parseVars, multiVars, httpVars, cfgVars, run_count>>
    \/ FailTask /\ UNCHANGED <<regVars, runVars, parseVars, multiVars, httpVars, cfgVars, run_count>>

----------------------------------------------------------------------------
(* Task decomposition *)

(* Bound of the decomposition model: the longest provider response *)
MaxRespLen == 4

(* A request is the set of the keywords it contains; an API key is missing,
   present with a format the provider rejects, or valid; a provider response
   is a sequence of tokens: brackets, a JSON object with string fields, a
   JSON number, or prose that is not JSON.  The commas between the values of
   an array are implicit. *)
Keywords == {"flask", "python", "login"}
Requests == SUBSET Keywords
ApiKeys == {"missing", "malformed", "valid"}
RespTokens == {"[", "]", "obj", "num", "text"}
Responses == SeqsUpTo(RespTokens, MaxRespLen)
ProviderOutcomes ==
    {[ok |-> FALSE, response |-> <<>>]}
    \cup {[ok |-> TRUE, response |-> r] : r \in Responses}

(* FileCreationHelper: the files of the flask_web_app template, in the
   order of the dictionary *)
TemplateFiles ==
    << <<"app.py">>, <<"requirements.txt">>, <<"templates", "base.html">>,
       <<"templates", "index.html">>, <<"templates", "login.html">>,
       <<"templates", "register.html">>, <<"templates", "dashboard.html">> >>

(* the file tasks of a template without its layout page base.html *)
generate_file_creation_tasks_without_layout(project_type) ==
    IF project_type = "flask_web_app"
    THEN [i \in 1..(Len(TemplateFiles) - 1) |->
             [name |-> "Create file",
              file_path |-> [abs |-> FALSE,
                             parts |-> TemplateFiles[IF i < 3 THEN i
                                                     ELSE i + 1]]]]
    ELSE <<>>

(* generate_file_creation_tasks: one entry per template file *)
generate_file_creation_tasks(project_type) ==
    IF project_type = "flask_web_app"
    THEN [i \in 1..Len(TemplateFiles) |->
             [name |-> "Create file",
              file_path |-> [abs |-> FALSE, parts |-> TemplateFiles[i]]]]
    ELSE <<>>

(* _detect_project_type *)
detect_project_type(request) ==
    IF /\ \E keyword \in {"flask", "web app", "web application",
                          "authentication", "login"} : keyword \in request
       /\ ("flask" \in request \/ "python" \in request)
    THEN "flask_web_app" ELSE None

(* The outcome of a decomposition: whether it raised, the ids it returned,
   and the task map it left behind *)
Decomposed(raised, ids, ts, order) ==
    [raised |-> raised, task_ids |-> ids, tasks |-> ts,
     execution_order |-> order]

RECURSIVE CreateFileTasks(_, _, _, _, _)
CreateFileTasks(file_tasks, project_type, ts, order, ids) ==
    IF file_tasks = <<>> THEN Decomposed(FALSE, ids, ts, order)
    ELSE LET ft == Head(file_tasks)
             c == CreateIn(ts, order, ft.name, NoId,
                           Metadata(TRUE, project_type, <<ft.file_path>>,
                                    TRUE, FALSE))
         IN  CreateFileTasks(Tail(file_tasks), project_type, c.tasks,
                             c.execution_order, Append(ids, c.id))

(* a template decomposition that creates the setup task before the files *)
create_template_based_tasks_setup_first(project_type, ts, order) ==
    LET dir == CreateIn(ts, order, "Create project directory structure", NoId,
                        Metadata(TRUE, project_type, <<>>, FALSE, FALSE))
        setup == CreateIn(dir.tasks, dir.execution_order,
                          "Initialize and test the application", NoId,
                          Metadata(TRUE, project_type, <<>>, FALSE, FALSE))
        files == CreateFileTasks(generate_file_creation_tasks(project_type),
                                 project_type, setup.tasks,
                                 setup.execution_order, <<dir.id, setup.id>>)
    IN  Decomposed(FALSE, files.task_ids, files.tasks, files.execution_order)

(* _create_template_based_tasks: the directory task, one task per template
   file, the final setup task *)
create_template_based_tasks(project_type, ts, order) ==
    LET dir == CreateIn(ts, order, "Create project directory structure", NoId,
                        Metadata(TRUE, project_type, <<>>, FALSE, FALSE))
        files == CreateFileTasks(generate_file_creation_tasks(project_type),
                                 project_type, dir.tasks, dir.execution_order,
                                 <<dir.id>>)
        setup == CreateIn(files.tasks, files.execution_order,
                          "Initialize and test the application", NoId,
                          Metadata(TRUE, project_type, <<>>, FALSE, FALSE))
    IN  Decomposed(FALSE, Append(files.task_ids, setup.id), setup.tasks,
                   setup.execution_order)

SetMin(S) == CHOOSE x \in S : \A y \in S : x <= y
SetMax(S) == CHOOSE x \in S : \A y \in S : x >= y

(* re.search(r'\[.*\]', response, re.DOTALL): from the first "[" to the last
   "]" after it; <<>> when there is no match *)
json_match(response) ==
    LET opens == {i \in 1..Len(response) : response[i] = "["}
    IN  IF opens = {} THEN <<>>
        ELSE LET first == SetMin(opens)
                 closes == {j \in 1..Len(response) :
                               j > first /\ response[j] = "]"}
             IN  IF closes = {} THEN <<>>
                 ELSE <<SubSeq(response, first, SetMax(closes))>>

(* Nesting depth after the first i tokens *)
Depth(s, i) ==
    Cardinality({k \in 1..i : s[k] = "["})
    - Cardinality({k \in 1..i : s[k] = "]"})

(* json.loads accepts: one array, closed by the last token, no prose *)
json_valid(s) ==
    /\ Len(s) >= 2
    /\ \A i \in 1..Len(s) : s[i] # "text"
    /\ \A i \in 1..(Len(s) - 1) : Depth(s, i) >= 1
    /\ Depth(s, Len(s)) = 0

(* json.loads: the kinds of the elements of the outer array, in order *)
json_loads(s) ==
    LET idx == {i \in 2..(Len(s) - 1) : Depth(s, i - 1) = 1 /\ s[i] # "]"}
        nth(k) == CHOOSE i \in idx : Cardinality({j \in idx : j <= i}) = k
        kind(tok) == IF tok = "obj" THEN "dict"
                     ELSE IF tok = "[" THEN "list" ELSE "number"
    IN  [k \in 1..Cardinality(idx) |-> kind(s[nth(k)])]

(* The loop over tasks_data: task_data.get raises AttributeError on an
   element that is not a dict; the tasks created before it stay *)
RECURSIVE CreateFromData(_, _, _, _)
CreateFromData(tasks_data, ts, order, ids) ==
    IF tasks_data = <<>> THEN Decomposed(FALSE, ids, ts, order)
    ELSE IF Head(tasks_data) # "dict" THEN Decomposed(TRUE, ids, ts, order)
    ELSE LET c == CreateIn(ts, order, "generated", NoId,
                           Metadata(FALSE, None, <<>>, FALSE, TRUE))
         IN  CreateFromData(Tail(tasks_data), c.tasks, c.execution_order,
                            Append(ids, c.id))

(* ProviderManager.call raises on a key whose format the provider rejects,
   and when the provider itself fails *)
provider_raises(api_key, outcome) == api_key # "valid" \/ ~outcome.ok

(* decompose_task, the body of its try block *)
decompose_try(api_key, outcome, ts, order) ==
    IF api_key = "missing" THEN Decomposed(FALSE, <<>>, ts, order)
    ELSE IF provider_raises(api_key, outcome)
    THEN Decomposed(TRUE, <<>>, ts, order)
    ELSE LET m == json_match(outcome.response)
         IN  IF m = <<>> THEN Decomposed(FALSE, <<>>, ts, order)
             ELSE IF ~json_valid(m[1]) THEN Decomposed(FALSE, <<>>, ts, order)
             ELSE CreateFromData(json_loads(m[1]), ts, order, <<>>)

(* decompose_task without the except clause that ends its try block *)
decompose_task_uncaught(request, api_key, outcome, ts, order) ==
    LET project_type == detect_project_type(request)
    IN  IF project_type # None
        THEN create_template_based_tasks(project_type, ts, order)
        ELSE decompose_try(api_key, outcome, ts, order)

(* decompose_task *)
decompose_task(request, api_key, outcome, ts, order) ==
    LET project_type == detect_project_type(request)
    IN  IF project_type # None
        THEN create_template_based_tasks(project_type, ts, order)
        ELSE LET r == decompose_try(api_key, outcome, ts, order)
             IN  IF r.raised
                 THEN Decomposed(FALSE, <<>>, r.tasks, r.execution_order)
                 ELSE r

NoDecomp ==
    [called |-> FALSE, request |-> {}, api_key |-> "missing",
     outcome |-> [ok |-> FALSE, response |-> <<>>], raised |-> FALSE,
     task_ids |-> <<>>]

(* One call of decompose_task on the task manager *)
Decompose(request, api_key, outcome) ==
    LET d == decompose_task(request, api_key, outcome, tasks, execution_order)
    IN  /\ tasks' = d.tasks
        /\ execution_order' = d.execution_order
        /\ lastCall' = IF Len(d.tasks) > Len(tasks)
                       THEN [op |-> "create", id |-> Len(d.tasks), ret |-> TRUE]
                       ELSE lastCall
        /\ decomp' = [called |-> TRUE, request |-> request,
                      api_key |-> api_key, outcome |-> outcome,
                      raised |-> d.raised, task_ids |-> d.task_ids]
        /\ UNCHANGED <<current_task_id, tm_events>>

DecomposeTask ==
    /\ ~decomp.called
    /\ run_pc = "idle"
    /\ \E request \in Requests, api_key \in ApiKeys,
          outcome \in ProviderOutcomes :
           Decompose(request, api_key, outcome)
    /\ UNCHANGED <<run_pc, run_input, task_ids, next_task, task_result,
                   execution_results, run_log, provider_calls, run_result>>

NextDecompose == DecomposeTask /\ UNCHANGED <<regVars, parseVars, multiVars, httpVars, cfgVars, run_count>>

----------------------------------------------------------------------------
(* The autonomous run of the enhanced agent *)

(* ToolRegistry.execute_tool as its only caller sees it: a slot is free, the
   call runs to its end; raised tells whether the body raised *)
execute_tool(tool, parameters, raised) ==
    IF tool \notin RegisteredTools THEN NotFound(tool)
    ELSE LET gate == execute_gate(tool, parameters)
         IN  ExecutionResult(tool, IF gate # <<>> THEN gate[1]
                                   ELSE execute_finish(raised))

TaskResult(success, error) == [success |-> success, error |-> error]

(* process_single_prompt: the key is checked for presence and for format,
   then the provider is called; llm_ok tells whether that call succeeded *)
process_single_prompt(api_key, llm_ok) ==
    IF api_key = "missing" THEN TaskResult(FALSE, "API key is required")
    ELSE IF api_key # "valid" THEN TaskResult(FALSE, "Invalid API key format")
    ELSE IF ~llm_ok THEN TaskResult(FALSE, "provider error")
    ELSE TaskResult(TRUE, None)

(* _execute_template_task *)
execute_template_task(task, api_key, llm_ok, raised) ==
    IF task.name = "Create project directory structure"
    THEN TaskResult(TRUE, None)
    ELSE IF task.metadata.file_path # <<>> /\ task.metadata.file_content
    THEN LET result == execute_tool("write_file",
                           [path |-> task.metadata.file_path[1],
                            content |-> "text"], raised)
         IN  IF result.success THEN TaskResult(TRUE, None)
             ELSE TaskResult(FALSE, "Failed to create file")
    ELSE IF task.name = "Initialize and test the application"
    THEN TaskResult(TRUE, None)
    ELSE process_single_prompt(api_key, llm_ok)

(* an _execute_single_task that hands every template_based task to the
   template executor *)
execute_single_task_every_template(task, api_key, llm_ok, raised) ==
    IF task.metadata.template_based
    THEN execute_template_task(task, api_key, llm_ok, raised)
    ELSE process_single_prompt(api_key, llm_ok)

(* _execute_single_task *)
execute_single_task(task, api_key, llm_ok, raised) ==
    IF task.metadata.template_based /\ task.metadata.file_content
    THEN execute_template_task(task, api_key, llm_ok, raised)
    ELSE process_single_prompt(api_key, llm_ok)

(* _execute_parsed_actions: one result per action, in order; raised tells
   whether the body of a tool that is entered raises *)
execute_parsed_actions(actions, raised) ==
    [i \in 1..Len(actions) |->
        execute_tool(actions[i].tool, actions[i].parameters, raised)]

(* The execution results of process_single_prompt: the actions parsed from
   the response are executed once the keys were accepted and the provider
   answered *)
single_prompt_results(api_key, llm_ok, actions, raised) ==
    IF process_single_prompt(api_key, llm_ok).success
    THEN execute_parsed_actions(actions, raised)
    ELSE <<>>

(* The results of the tools _execute_single_task ran for a task that the
   decomposition created: the write_file call of a template file task, or
   the actions of the prompt.  The directory and the setup task carry no
   file content and take the prompt like any other task. *)
task_execution_results(task, api_key, llm_ok, actions, raised) ==
    IF /\ task.metadata.template_based /\ task.metadata.file_content
       /\ task.name # "Create project directory structure"
       /\ task.metadata.file_path # <<>>
    THEN <<execute_tool("write_file",
                        [path |-> task.metadata.file_path[1],
                         content |-> "text"], raised)>>
    ELSE single_prompt_results(api_key, llm_ok, actions, raised)

(* dict.get(key) on a dictionary of the tool layer *)
DictGet(d, key) == IF key \in DOMAIN d THEN d[key] ELSE None

(* _execute_single_task, the file tracking after process_single_prompt: for
   every execution result with success and a tool among tools, the value
   under key of exec_result.get('result', {}), the dictionary that
   BaseTool.execute returned, when there is one *)
RECURSIVE extract_operations(_, _, _)
extract_operations(results, tools, key) ==
    IF results = <<>> THEN <<>>
    ELSE LET exec_result == Head(results)
             rest == extract_operations(Tail(results), tools, key)
         IN  IF /\ exec_result.success
                /\ exec_result.tool \in tools
                /\ exec_result.result # <<>>
                /\ DictGet(exec_result.result[1], key) # None
             THEN <<DictGet(exec_result.result[1], key)>> \o rest
             ELSE rest

(* The files_created and commands_executed of the dictionary that
   _execute_single_task returns for a task whose tools gave these results:
   the template executor lists the file it wrote, the prompt path tracks
   the execution results *)
files_created(task, results) ==
    IF task.metadata.template_based /\ task.metadata.file_content
    THEN IF /\ task.name # "Create project directory structure"
            /\ task.metadata.file_path # <<>>
            /\ results # <<>> /\ results[1].success
         THEN <<task.metadata.file_path[1]>> ELSE <<>>
    ELSE extract_operations(results, {"write_file", "create_file"}, "path")

commands_executed(task, results) ==
    IF task.metadata.template_based /\ task.metadata.file_content
    THEN <<>>
    ELSE extract_operations(results, {"execute_command"}, "command")

(* A tool action failed: the registry answered success false, or the tool's
   own result inside the answer says so *)
action_failed(result) ==
    \/ ~result.success
    \/ result.result # <<>> /\ ~result.result[1].success

(* The action lists a provider response is parsed into: none, or one call *)
ParsedActions == {<<>>} \cup {<<call>> : call \in CoreInputs}

(* Whether _execute_single_task calls the provider for this task *)
calls_provider(task, api_key) ==
    /\ ~(task.metadata.template_based /\ task.metadata.file_content)
    /\ api_key = "valid"

RunError(error) ==
    [success |-> FALSE, error |-> error, autonomous_mode |-> FALSE,
     tasks_executed |-> 0, tasks_completed |-> 0, tasks_failed |-> 0,
     total_tasks |-> 0]

(* The prompts of a run: blank, or a request *)
Prompts ==
    {[blank |-> TRUE, keywords |-> {}]}
    \cup {[blank |-> FALSE, keywords |-> r] : r \in Requests}

(* The provider outcomes a run draws its decomposition from *)
RunOutcomes ==
    {[ok |-> FALSE, response |-> <<>>],
     [ok |-> TRUE, response |-> <<"text">>],
     [ok |-> TRUE, response |-> <<"[", "text", "]">>],
     [ok |-> TRUE, response |-> <<"[", "]">>],
     [ok |-> TRUE, response |-> <<"[", "obj", "num", "]">>],
     [ok |-> TRUE, response |-> <<"text", "[", "obj", "]">>],
     [ok |-> TRUE, response |-> <<"[", "obj", "obj", "]">>],
     [ok |-> TRUE, response |-> <<"[", "obj", "obj", "obj", "]">>]}

(* process_autonomous up to the start of its loop: the prompt and the key
   are checked, the request is decomposed; an empty decomposition takes the
   fallback branch, whose first statement calls Logger.warning, a method the
   Logger does not have: the AttributeError reaches the outer handler. *)
process_autonomous_begin(prompt, api_key, outcome) ==
    /\ run_pc = "idle"
    /\ ~decomp.called
    /\ run_input' = [prompt |-> prompt, api_key |-> api_key]
    /\ IF prompt.blank
       THEN /\ run_result' = RunError("Prompt is required")
            /\ run_pc' = "done"
            /\ UNCHANGED <<tmVars, decomp, task_ids, provider_calls>>
       ELSE IF api_key = "missing"
       THEN /\ run_result' = RunError("API key is required")
            /\ run_pc' = "done"
            /\ UNCHANGED <<tmVars, decomp, task_ids, provider_calls>>
       ELSE /\ Decompose(prompt.keywords, api_key, outcome)
            /\ task_ids' = IF decomp'.raised THEN <<>> ELSE decomp'.task_ids
            /\ provider_calls' =
                   IF detect_project_type(prompt.keywords) = None
                      /\ api_key = "valid"
                   THEN provider_calls + 1 ELSE provider_calls
            /\ IF task_ids' = <<>>
               THEN /\ run_result' = RunError("no attribute 'warning'")
                    /\ run_pc' = "done"
               ELSE /\ run_pc' = "loop"
                    /\ UNCHANGED run_result
    /\ UNCHANGED <<next_task, task_result, execution_results, run_log>>

(* The loop taking the next task without starting it *)
process_autonomous_next_unstarted ==
    /\ run_pc = "loop"
    /\ get_next_task # NoId
    /\ next_task' = get_next_task
    /\ run_pc' = "executing"
    /\ UNCHANGED <<tmVars, decomp, run_input, task_ids, task_result,
                   execution_results, run_log, provider_calls, run_result>>

(* The loop: get_next_task and start_task *)
process_autonomous_next ==
    /\ run_pc = "loop"
    /\ get_next_task # NoId
    /\ start_task(get_next_task)
    /\ next_task' = get_next_task
    /\ run_pc' = "executing"
    /\ UNCHANGED <<decomp, run_input, task_ids, task_result,
                   execution_results, run_log, provider_calls, run_result>>

(* The loop: _execute_single_task *)
process_autonomous_execute(llm_ok, actions, raised) ==
    /\ run_pc = "executing"
    /\ task_result' = execute_single_task(tasks[next_task], run_input.api_key,
                                          llm_ok, raised)
    /\ execution_results' =
           task_execution_results(tasks[next_task], run_input.api_key,
                                  llm_ok, actions, raised)
    /\ provider_calls' = IF calls_provider(tasks[next_task], run_input.api_key)
                         THEN provider_calls + 1 ELSE provider_calls
    /\ run_pc' = "finishing"
    /\ UNCHANGED <<tmVars, decomp, run_input, task_ids, next_task, run_log,
                   run_result>>

(* The loop going on to its next iteration without completing or failing
   the task it executed *)
process_autonomous_finish_unfinished ==
    /\ run_pc = "finishing"
    /\ run_log' =
           Append(run_log,
                  [id |-> next_task, success |-> task_result.success,
                   files_created |->
                       files_created(tasks[next_task], execution_results),
                   commands_executed |->
                       commands_executed(tasks[next_task],
                                         execution_results)])
    /\ run_pc' = "loop"
    /\ UNCHANGED <<tmVars, decomp, run_input, task_ids, next_task, task_result,
                   execution_results, provider_calls, run_result>>

(* The loop: complete_task or fail_task, then the next iteration *)
process_autonomous_finish ==
    /\ run_pc = "finishing"
    /\ IF task_result.success THEN complete_task(next_task, "result")
       ELSE fail_task(next_task, task_result.error)
    /\ run_log' =
           Append(run_log,
                  [id |-> next_task, success |-> task_result.success,
                   files_created |->
                       files_created(tasks[next_task], execution_results),
                   commands_executed |->
                       commands_executed(tasks[next_task],
                                         execution_results)])
    /\ run_pc' = "loop"
    /\ UNCHANGED <<decomp, run_input, task_ids, next_task, task_result,
                   execution_results, provider_calls, run_result>>

(* The end of the loop: the summary becomes the result of the run *)
process_autonomous_end ==
    /\ run_pc = "loop"
    /\ get_next_task = NoId
    /\ LET summary == get_progress_summary
       IN  run_result' =
               [success |-> TRUE, error |-> None, autonomous_mode |-> TRUE,
                tasks_executed |-> Len(task_ids),
                tasks_completed |-> summary.completed_tasks,
                tasks_failed |-> summary.failed_tasks,
                total_tasks |-> summary.total_tasks]
    /\ run_pc' = "done"
    /\ UNCHANGED <<tmVars, decomp, run_input, task_ids, next_task,
                   task_result, execution_results, run_log, provider_calls>>

InitRun ==
    /\ run_count = 0
    /\ decomp = NoDecomp
    /\ run_pc = "idle"
    /\ run_input = [prompt |-> [blank |-> TRUE, keywords |-> {}],
                    api_key |-> "missing"]
    /\ task_ids = <<>>
    /\ next_task = NoId
    /\ task_result = TaskResult(FALSE, None)
    /\ execution_results = <<>>
    /\ run_log = <<>>
    /\ provider_calls = 0
    /\ run_result = RunError(None)

RunBegin ==
    /\ run_pc = "idle"
    /\ \E prompt \in Prompts, api_key \in ApiKeys, outcome \in RunOutcomes :
           process_autonomous_begin(prompt, api_key, outcome)

RunNext == process_autonomous_next

RunExecute ==
    /\ run_pc = "executing"
    /\ \E llm_ok \in BOOLEAN, actions \in ParsedActions, raised \in BOOLEAN :
           process_autonomous_execute(llm_ok, actions, raised)

RunFinish == process_autonomous_finish

RunEnd == process_autonomous_end

NextRun ==
    \/ RunBegin /\ UNCHANGED <<regVars, parseVars, multiVars, httpVars, cfgVars, run_count>>
    \/ RunNext /\ UNCHANGED <<regVars, parseVars, multiVars, httpVars, cfgVars, run_count>>
    \/ RunExecute /\ UNCHANGED <<regVars, parseVars, multiVars, httpVars, cfgVars, run_count>>
    \/ RunFinish /\ UNCHANGED <<regVars, parseVars, multiVars, httpVars, cfgVars, run_count>>
    \/ RunEnd /\ UNCHANGED <<regVars, parseVars, multiVars, httpVars, cfgVars, run_count>>

(* Bound of the repeated runs: the runs after the first *)
MaxRuns == 1

(* The requests and provider answers of repeated runs: a request that no
   template covers, decomposed by the provider, or a flask request *)
RepeatedOutcomes ==
    {[ok |-> FALSE, response |-> <<>>],
     [ok |-> TRUE, response |-> <<"[", "obj", "]">>],
     [ok |-> TRUE, response |-> <<"[", "obj", "num", "]">>],
     [ok |-> TRUE, response |-> <<"[", "obj", "obj", "]">>]}

RunsBegin ==
    /\ run_pc = "idle"
    /\ \E keywords \in {{}, {"flask"}}, api_key \in ApiKeys,
          outcome \in RepeatedOutcomes :
           process_autonomous_begin([blank |-> FALSE, keywords |-> keywords],
                                    api_key, outcome)

RunsExecute ==
    /\ run_pc = "executing"
    /\ \E llm_ok \in BOOLEAN, actions \in {<<>>}, raised \in BOOLEAN :
           process_autonomous_execute(llm_ok, actions, raised)

(* process_autonomous is called again on the same agent: the task manager
   made in __init__ keeps its tasks *)
RunAgain ==
    /\ run_pc = "done"
    /\ run_count < MaxRuns
    /\ run_count' = run_count + 1
    /\ run_pc' = "idle"
    /\ decomp' = NoDecomp
    /\ run_input' = [prompt |-> [blank |-> TRUE, keywords |-> {}],
                     api_key |-> "missing"]
    /\ task_ids' = <<>>
    /\ next_task' = NoId
    /\ task_result' = TaskResult(FALSE, None)
    /\ execution_results' = <<>>
    /\ run_log' = <<>>
    /\ provider_calls' = 0
    /\ run_result' = RunError(None)
    /\ UNCHANGED tmVars

NextRuns ==
    \/ RunsBegin /\ UNCHANGED <<regVars, parseVars, multiVars, httpVars, cfgVars, run_count>>
    \/ RunNext /\ UNCHANGED <<regVars, parseVars, multiVars, httpVars, cfgVars, run_count>>
    \/ RunsExecute /\ UNCHANGED <<regVars, parseVars, multiVars, httpVars, cfgVars, run_count>>
    \/ RunFinish /\ UNCHANGED <<regVars, parseVars, multiVars, httpVars, cfgVars, run_count>>
    \/ RunEnd /\ UNCHANGED <<regVars, parseVars, multiVars, httpVars, cfgVars, run_count>>
    \/ RunAgain /\ UNCHANGED <<regVars, parseVars, multiVars, httpVars, cfgVars>>

(* Runs of one agent on requests that the provider decomposes *)
LoopBegin ==
    /\ run_pc = "idle"
    /\ \E api_key \in ApiKeys, outcome \in RepeatedOutcomes :
           process_autonomous_begin([blank |-> FALSE, keywords |-> {}],
                                    api_key, outcome)

NextLoop ==
    \/ LoopBegin /\ UNCHANGED <<regVars, parseVars, multiVars, httpVars, cfgVars, run_count>>
    \/ RunNext /\ UNCHANGED <<regVars, parseVars, multiVars, httpVars, cfgVars, run_count>>
    \/ RunsExecute /\ UNCHANGED <<regVars, parseVars, multiVars, httpVars, cfgVars, run_count>>
    \/ RunFinish /\ UNCHANGED <<regVars, parseVars, multiVars, httpVars, cfgVars, run_count>>
    \/ RunEnd /\ UNCHANGED <<regVars, parseVars, multiVars, httpVars, cfgVars, run_count>>
    \/ RunAgain /\ UNCHANGED <<regVars, parseVars, multiVars, httpVars, cfgVars>>

----------------------------------------------------------------------------
(* The action parser *)

(* A response is a sequence of elements.  The characters the parser's
   patterns and scanners tell apart stand for themselves: braces, the double
   quote, the backslash, newline, tab, space, colon, comma.  A run of other
   characters is one element (a word).  The text "ACTION: <tool>" followed by
   a newline and "PARAMETERS:" is one element (a header), and so is each
   imperative phrase of the fallback pass. *)
Whitespace == {" ", "\n", "\t"}

Headers ==
    {"ACTION write_file", "ACTION read_file", "ACTION list_directory",
     "ACTION create_directory", "ACTION execute_command"}

(* ACTION:\s*(\w+): the tool a header names *)
HeaderTool(e) ==
    CASE e = "ACTION write_file" -> "write_file"
      [] e = "ACTION read_file" -> "read_file"
      [] e = "ACTION list_directory" -> "list_directory"
      [] e = "ACTION create_directory" -> "create_directory"
      [] e = "ACTION execute_command" -> "execute_command"
      [] OTHER -> None

IsHeader(e) == e \in Headers

(* re.findall(r'ACTION:\s*(\w+)'): the tools of the headers, in order *)
RECURSIVE action_lines(_)
action_lines(response) ==
    IF response = <<>> THEN <<>>
    ELSE IF IsHeader(Head(response))
    THEN <<HeaderTool(Head(response))>> \o action_lines(Tail(response))
    ELSE action_lines(Tail(response))

(* PARAMETERS:\s*(\{ : the index of the brace that opens the group after the
   header at h, 0 when the first element that is not whitespace is no brace *)
BraceAfter(response, h) ==
    LET rest == {i \in (h + 1)..Len(response) : response[i] \notin Whitespace}
    IN  IF rest = {} THEN 0
        ELSE IF response[SetMin(rest)] = "{" THEN SetMin(rest) ELSE 0

(* \n(?:ACTION:|$) at index p: a newline followed by a header, by the end of
   the response, or by the newline that ends the response *)
LineEndsBlock(response, p) ==
    /\ p <= Len(response)
    /\ response[p] = "\n"
    /\ \/ p = Len(response)
       \/ p + 1 = Len(response) /\ response[p + 1] = "\n"
       \/ p + 1 <= Len(response) /\ IsHeader(response[p + 1])

(* (?=\n\n|\nACTION:|\Z) at index p *)
LookaheadStops(response, p) ==
    \/ p = Len(response) + 1
    \/ /\ p + 1 <= Len(response)
       /\ response[p] = "\n"
       /\ response[p + 1] = "\n" \/ IsHeader(response[p + 1])

(* The first pattern at the header h: the lazy group from the brace to the
   first line end that closes the block; <<>> when it does not match *)
first_pattern(response, h) ==
    LET s == BraceAfter(response, h)
        ends == {e \in s..Len(response) : LineEndsBlock(response, e + 1)}
    IN  IF s = 0 \/ ends = {} THEN <<>>
        ELSE <<SubSeq(response, s, SetMin(ends))>>

(* The second pattern at the header h *)
second_pattern(response, h) ==
    LET s == BraceAfter(response, h)
        ends == {e \in s..Len(response) : LookaheadStops(response, e + 1)}
    IN  IF s = 0 \/ ends = {} THEN <<>>
        ELSE <<SubSeq(response, s, SetMin(ends))>>

(* The match of a pattern at the header h: "first" or "second" *)
pattern_at(response, h, pattern) ==
    IF pattern = "first" THEN first_pattern(response, h)
    ELSE second_pattern(response, h)

(* re.search: the match at the first header of that tool where the pattern
   matches *)
search_pattern(response, tool_name, pattern) ==
    LET hs == {h \in 1..Len(response) :
                  /\ HeaderTool(response[h]) = tool_name
                  /\ pattern_at(response, h, pattern) # <<>>}
    IN  IF hs = {} THEN <<>> ELSE pattern_at(response, SetMin(hs), pattern)

(* The group the parser works on for a tool name: first pattern, else the
   second; <<>> when neither matches *)
parameters_match(response, tool_name) ==
    LET m == search_pattern(response, tool_name, "first")
    IN  IF m # <<>> THEN m
        ELSE search_pattern(response, tool_name, "second")

(* str.strip() *)
RECURSIVE LStrip(_)
LStrip(s) ==
    IF s # <<>> /\ Head(s) \in Whitespace THEN LStrip(Tail(s)) ELSE s

RECURSIVE RStrip(_)
RStrip(s) ==
    IF s # <<>> /\ s[Len(s)] \in Whitespace
    THEN RStrip(SubSeq(s, 1, Len(s) - 1)) ELSE s

Strip(s) == RStrip(LStrip(s))

(* _extract_complete_json: the scan that counts braces outside strings and
   triple quotes; the index of the brace that closes the object, 0 when the
   scan reaches the end first *)
RECURSIVE ScanEnd(_, _, _, _, _, _)
ScanEnd(s, i, brace_count, in_string, in_triple_quote, escape_next) ==
    IF i > Len(s) THEN 0
    ELSE IF escape_next
    THEN ScanEnd(s, i + 1, brace_count, in_string, in_triple_quote, FALSE)
    ELSE IF s[i] = "\\" /\ (in_string \/ in_triple_quote)
    THEN ScanEnd(s, i + 1, brace_count, in_string, in_triple_quote, TRUE)
    ELSE IF i + 2 <= Len(s) /\ SubSeq(s, i, i + 2) = <<"\"", "\"", "\"">>
    THEN ScanEnd(s, i + 3, brace_count, in_string,
                 IF in_string THEN in_triple_quote ELSE ~in_triple_quote,
                 FALSE)
    ELSE IF s[i] = "\"" /\ ~in_triple_quote
    THEN ScanEnd(s, i + 1, brace_count, ~in_string, in_triple_quote, FALSE)
    ELSE IF ~in_string /\ ~in_triple_quote /\ s[i] = "{"
    THEN ScanEnd(s, i + 1, brace_count + 1, in_string, in_triple_quote, FALSE)
    ELSE IF ~in_string /\ ~in_triple_quote /\ s[i] = "}"
    THEN IF brace_count - 1 = 0 THEN i
         ELSE ScanEnd(s, i + 1, brace_count - 1, in_string, in_triple_quote,
                      FALSE)
    ELSE ScanEnd(s, i + 1, brace_count, in_string, in_triple_quote, FALSE)

(* _extract_complete_json *)
extract_complete_json(json_str) ==
    IF Strip(json_str) = <<>> \/ Head(Strip(json_str)) # "{" THEN json_str
    ELSE LET end_pos == ScanEnd(json_str, 1, 0, FALSE, FALSE, FALSE)
         IN  IF end_pos > 0 THEN SubSeq(json_str, 1, end_pos) ELSE json_str

(* json.loads on the JSON texts the model uses: an object whose values are
   strings or bare literals.  A string holds no raw control character; a
   backslash escapes a quote, a backslash, or one of the letters n, r, t. *)
Specials == {"{", "}", "\"", "\\", "\n", "\t", " ", ":", ","}

Unescape(e) ==
    CASE e = "\"" -> "\""
      [] e = "\\" -> "\\"
      [] e = "n" -> "\n"
      [] e = "r" -> "\r"
      [] e = "t" -> "\t"
      [] OTHER -> None

JsonFail == [ok |-> FALSE, next |-> 0, text |-> <<>>]

SkipWs(s, i) ==
    LET rest == {j \in i..Len(s) : s[j] \notin Whitespace}
    IN  IF rest = {} THEN Len(s) + 1 ELSE SetMin(rest)

(* The body of a string, from the element after its opening quote *)
RECURSIVE ParseString(_, _, _)
ParseString(s, i, acc) ==
    IF i > Len(s) THEN JsonFail
    ELSE IF s[i] = "\"" THEN [ok |-> TRUE, next |-> i + 1, text |-> acc]
    ELSE IF s[i] \in {"\n", "\t", "\r"} THEN JsonFail
    ELSE IF s[i] = "\\"
    THEN IF i + 1 > Len(s) \/ Unescape(s[i + 1]) = None THEN JsonFail
         ELSE ParseString(s, i + 2, Append(acc, Unescape(s[i + 1])))
    ELSE ParseString(s, i + 1, Append(acc, s[i]))

(* A value: a string, or a bare literal (a number, true, false, null) *)
ParseValue(s, i) ==
    IF i > Len(s) THEN [ok |-> FALSE, next |-> 0, value |-> <<>>]
    ELSE IF s[i] = "\""
    THEN LET r == ParseString(s, i + 1, <<>>)
         IN  [ok |-> r.ok, next |-> r.next,
              value |-> [kind |-> "string", text |-> r.text]]
    ELSE IF s[i] \notin Specials
    THEN [ok |-> TRUE, next |-> i + 1,
          value |-> [kind |-> "literal", text |-> <<s[i]>>]]
    ELSE [ok |-> FALSE, next |-> 0, value |-> <<>>]

(* A key of the object as a field name: the keys of the model are one word *)
KeyOf(text) == IF Len(text) = 1 THEN text[1] ELSE ""

SetKey(parameters, key, value) ==
    [k \in (DOMAIN parameters) \cup {key} |->
        IF k = key THEN value ELSE parameters[k]]

DelKey(parameters, key) ==
    [k \in (DOMAIN parameters) \ {key} |-> parameters[k]]

EmptyDict == [k \in {} |-> <<>>]

LoadsFail == [ok |-> FALSE, value |-> EmptyDict]

(* The members of an object, from the first element of a key's string *)
RECURSIVE ParseMembers(_, _, _)
ParseMembers(s, i, parameters) ==
    IF i > Len(s) \/ s[i] # "\"" THEN LoadsFail
    ELSE LET key == ParseString(s, i + 1, <<>>)
             colon == SkipWs(s, key.next)
         IN  IF ~key.ok \/ colon > Len(s) \/ s[colon] # ":" THEN LoadsFail
             ELSE LET v == ParseValue(s, SkipWs(s, colon + 1))
                      after == SkipWs(s, v.next)
                      dict == SetKey(parameters, KeyOf(key.text), v.value)
                  IN  IF ~v.ok \/ after > Len(s) THEN LoadsFail
                      ELSE IF s[after] = "}"
                      THEN IF SkipWs(s, after + 1) > Len(s)
                           THEN [ok |-> TRUE, value |-> dict]
                           ELSE LoadsFail
                      ELSE IF s[after] = ","
                      THEN ParseMembers(s, SkipWs(s, after + 1), dict)
                      ELSE LoadsFail

(* json.loads *)
json_loads_object(s) ==
    LET open == SkipWs(s, 1)
    IN  IF open > Len(s) \/ s[open] # "{" THEN LoadsFail
        ELSE LET first == SkipWs(s, open + 1)
             IN  IF first <= Len(s) /\ s[first] = "}"
                 THEN IF SkipWs(s, first + 1) > Len(s)
                      THEN [ok |-> TRUE, value |-> EmptyDict]
                      ELSE LoadsFail
                 ELSE ParseMembers(s, first, EmptyDict)

(* replace_triple_quotes: the escapes of the content *)
RECURSIVE EscapeContent(_)
EscapeContent(content) ==
    IF content = <<>> THEN <<>>
    ELSE LET e == Head(content)
             out == CASE e = "\\" -> <<"\\", "\\">>
                      [] e = "\"" -> <<"\\", "\"">>
                      [] e = "\n" -> <<"\\", "n">>
                      [] e = "\r" -> <<"\\", "r">>
                      [] e = "\t" -> <<"\\", "t">>
                      [] OTHER -> <<e>>
         IN  out \o EscapeContent(Tail(content))

TripleQuote == <<"\"", "\"", "\"">>

(* "([^"]+)":\s*"""(.*?)""" at index p *)
TripleMatchAt(s, p) ==
    LET quotes == {j \in (p + 1)..Len(s) : s[j] = "\""}
        kq == IF quotes = {} THEN 0 ELSE SetMin(quotes)
        t == SkipWs(s, kq + 2)
        closes == {q \in (t + 3)..(Len(s) - 2) : SubSeq(s, q, q + 2) = TripleQuote}
        no == [ok |-> FALSE, next |-> 0, key |-> <<>>, content |-> <<>>]
    IN  IF s[p] # "\"" \/ kq = 0 \/ kq = p + 1 THEN no
        ELSE IF kq + 1 > Len(s) \/ s[kq + 1] # ":" THEN no
        ELSE IF t + 2 > Len(s) \/ SubSeq(s, t, t + 2) # TripleQuote THEN no
        ELSE IF closes = {} THEN no
        ELSE [ok |-> TRUE, next |-> SetMin(closes) + 3,
              key |-> SubSeq(s, p + 1, kq - 1),
              content |-> SubSeq(s, t + 3, SetMin(closes) - 1)]

(* _fix_json_content: re.sub over the matches, left to right *)
RECURSIVE FixFrom(_, _)
FixFrom(s, i) ==
    IF i > Len(s) THEN <<>>
    ELSE LET m == TripleMatchAt(s, i)
         IN  IF m.ok
             THEN <<"\"">> \o m.key \o <<"\"", ":", " ", "\"">>
                  \o EscapeContent(m.content) \o <<"\"">> \o FixFrom(s, m.next)
             ELSE <<s[i]>> \o FixFrom(s, i + 1)

fix_json_content(json_str) == FixFrom(json_str, 1)

(* dict.get(key) taken as a truth value *)
Truthy(parameters, key) ==
    /\ key \in DOMAIN parameters
    /\ IF parameters[key].kind = "string" THEN parameters[key].text # <<>>
       ELSE parameters[key].text[1] \notin {"0", "false", "null"}

(* parameters[to] = parameters.pop(from), when from is a key *)
Rename(parameters, from, to) ==
    IF from \in DOMAIN parameters
    THEN SetKey(DelKey(parameters, from), to, parameters[from])
    ELSE parameters

StringValue(text) == [kind |-> "string", text |-> text]

(* The aliases and defaults of the common tools; <<>> when the action is
   skipped for want of a path *)
normalize_parameters(tool_name, parameters) ==
    IF tool_name = "list_directory"
    THEN LET p == Rename(Rename(parameters, "directory", "path"),
                         "hidden", "include_hidden")
         IN  <<IF Truthy(p, "path") THEN p
               ELSE SetKey(p, "path", StringValue(<<".">>))>>
    ELSE IF tool_name = "create_directory"
    THEN LET p == Rename(Rename(parameters, "directory_path", "path"),
                         "directory", "path")
         IN  IF Truthy(p, "path") THEN <<p>> ELSE <<>>
    ELSE IF tool_name \in {"read_file", "write_file"}
    THEN LET p == Rename(Rename(Rename(parameters, "file", "path"),
                                "file_path", "path"), "filepath", "path")
         IN  IF Truthy(p, "path") THEN <<p>> ELSE <<>>
    ELSE <<parameters>>

ParsedAction(tool, parameters) == [tool |-> tool, parameters |-> parameters]

(* One iteration of the loop over action_lines: the actions it appends.  The
   aliases and defaults are applied in the branch that repaired the JSON
   text, and only there. *)
parse_block(response, tool_name) ==
    LET match == parameters_match(response, tool_name)
        json_str == extract_complete_json(Strip(match[1]))
        as_is == json_loads_object(json_str)
        fixed == json_loads_object(fix_json_content(json_str))
    IN  IF match = <<>> THEN <<>>
        ELSE IF as_is.ok THEN <<ParsedAction(tool_name, as_is.value)>>
        ELSE IF ~fixed.ok THEN <<>>
        ELSE LET n == normalize_parameters(tool_name, fixed.value)
             IN  IF n = <<>> THEN <<>> ELSE <<ParsedAction(tool_name, n[1])>>

RECURSIVE parse_blocks(_, _)
parse_blocks(response, tool_names) ==
    IF tool_names = <<>> THEN <<>>
    ELSE parse_block(response, Head(tool_names))
         \o parse_blocks(response, Tail(tool_names))

(* The imperative phrases of the fallback pass, each with the text its
   pattern captures *)
PhraseKinds ==
    <<"create file", "read file", "list directory", "run command", "execute">>

PhraseKind(e) ==
    CASE e = "create file: f.py" -> "create file"
      [] e = "read file: f.py" -> "read file"
      [] e = "list directory: src" -> "list directory"
      [] e = "run command: ls" -> "run command"
      [] e = "execute: ls" -> "execute"
      [] OTHER -> None

PhraseArgument(e) ==
    IF PhraseKind(e) \in {"create file", "read file"} THEN <<"f.py">>
    ELSE IF PhraseKind(e) = "list directory" THEN <<"src">>
    ELSE <<"ls">>

phrase_action(e) ==
    LET arg == StringValue(PhraseArgument(e))
    IN  CASE PhraseKind(e) = "create file" ->
                ParsedAction("write_file",
                    [k \in {"path", "content"} |->
                        IF k = "path" THEN arg
                        ELSE StringValue(<<"# Generated file", "\n">>)])
          [] PhraseKind(e) = "read file" ->
                ParsedAction("read_file", [k \in {"path"} |-> arg])
          [] PhraseKind(e) = "list directory" ->
                ParsedAction("list_directory", [k \in {"path"} |-> arg])
          [] OTHER ->
                ParsedAction("execute_command", [k \in {"command"} |-> arg])

RECURSIVE phrase_matches(_, _)
phrase_matches(response, kind) ==
    IF response = <<>> THEN <<>>
    ELSE IF PhraseKind(Head(response)) = kind
    THEN <<phrase_action(Head(response))>>
         \o phrase_matches(Tail(response), kind)
    ELSE phrase_matches(Tail(response), kind)

RECURSIVE simple_patterns(_, _)
simple_patterns(response, k) ==
    IF k > Len(PhraseKinds) THEN <<>>
    ELSE phrase_matches(response, PhraseKinds[k])
         \o simple_patterns(response, k + 1)

(* _parse_actions_from_response with the fallback pass run only when the
   primary pass found nothing *)
parse_actions_fallback_if_empty(response) ==
    IF parse_blocks(response, action_lines(response)) # <<>>
    THEN parse_blocks(response, action_lines(response))
    ELSE simple_patterns(response, 1)

(* _parse_actions_from_response *)
parse_actions_from_response(response) ==
    parse_blocks(response, action_lines(response))
    \o simple_patterns(response, 1)

(* The responses of the model: one block of a tool, its members separated
   by a comma and whitespace, followed by a trailer.  A member's value is
   written as a plain JSON string (src is the text between the quotes, text
   what it denotes) or between triple quotes. *)
MaxContentLen == 2

ContentAtoms == {"x", "\n", "\"", "\t", "\\", "{"}

PlainMember(key, src, text) ==
    [key |-> key, triple |-> FALSE, src |-> src, text |-> text]

TripleMember(key, content) ==
    [key |-> key, triple |-> TRUE, src |-> content, text |-> content]

PathMember == PlainMember("path", <<"a.txt">>, <<"a.txt">>)

PlainContents ==
    {PlainMember("content", <<"x">>, <<"x">>),
     PlainMember("content", <<"say", " ", "\\", "\"", "hi", "\\", "\"">>,
                 <<"say", " ", "\"", "hi", "\"">>),
     PlainMember("content", <<"a", "\\", "n", "}", "b">>,
                 <<"a", "\n", "}", "b">>)}

TripleContents ==
    {TripleMember("content", c) : c \in SeqsUpTo(ContentAtoms, MaxContentLen)}

(* A path under the alias of its tool, and a block without any path *)
AliasMembers ==
    {PlainMember("file", <<"a.txt">>, <<"a.txt">>),
     PlainMember("directory", <<"src">>, <<"src">>),
     PlainMember("content", <<"x">>, <<"x">>)}

MemberLists ==
    {<<PathMember>>, <<PlainMember("path", <<"src">>, <<"src">>)>>}
    \cup {<<m>> : m \in AliasMembers}
    \cup {<<PathMember, m>> : m \in PlainContents \cup TripleContents}

Separators == {<<" ">>, <<"\n">>, <<"\n", "\n">>}

Trailers ==
    {<<>>, <<"\n">>, <<"\n", "\n", "Done">>,
     <<"\n", "ACTION read_file", " ", "{", "\"", "path", "\"", ":", " ",
       "\"", "b.txt", "\"", "}", "\n">>,
     <<"\n", "ACTION write_file", " ", "{", "\"", "path", "\"", ":", " ",
       "\"", "b.txt", "\"", "}", "\n">>,
     <<"\n", "create file: f.py">>,
     <<"\n", "list directory: src">>}

Blocks ==
    {[tool |-> t, members |-> ms, separator |-> sep, trailer |-> tr] :
        t \in {"write_file", "list_directory"}, ms \in MemberLists,
        sep \in Separators, tr \in Trailers}

MemberText(m) ==
    <<"\"", m.key, "\"", ":", " ">>
    \o (IF m.triple THEN TripleQuote \o m.src \o TripleQuote
        ELSE <<"\"">> \o m.src \o <<"\"">>)

RECURSIVE MembersText(_, _)
MembersText(members, separator) ==
    IF Len(members) = 1 THEN MemberText(members[1])
    ELSE MemberText(members[1]) \o <<",">> \o separator
         \o MembersText(Tail(members), separator)

HeaderOf(tool) == CHOOSE h \in Headers : HeaderTool(h) = tool

ResponseText(block) ==
    <<HeaderOf(block.tool), " ", "{">>
    \o MembersText(block.members, block.separator) \o <<"}">> \o block.trailer

NoBlock ==
    [tool |-> None, members |-> <<>>, separator |-> <<>>, trailer |-> <<>>]

InitParse ==
    /\ parse_pc = "idle"
    /\ parse_input = NoBlock
    /\ parse_actions = <<>>
    /\ parse_again = <<>>

(* The parser applied to a response *)
ParseResponse ==
    /\ parse_pc = "idle"
    /\ \E block \in Blocks :
           /\ parse_input' = block
           /\ parse_actions' = parse_actions_from_response(ResponseText(block))
    /\ parse_pc' = "parsed"
    /\ UNCHANGED parse_again

(* The parser applied to the same response once more *)
ParseAgain ==
    /\ parse_pc = "parsed"
    /\ parse_again' = parse_actions_from_response(ResponseText(parse_input))
    /\ parse_pc' = "parsed again"
    /\ UNCHANGED <<parse_input, parse_actions>>

NextParse ==
    \/ ParseResponse /\ UNCHANGED <<tmVars, regVars, runVars, multiVars, httpVars, cfgVars, run_count>>
    \/ ParseAgain /\ UNCHANGED <<tmVars, regVars, runVars, multiVars, httpVars, cfgVars, run_count>>

----------------------------------------------------------------------------
(* execute_multiple_tools: the calls of the list run as the calls 1..k of the
   registry *)

(* execute_tool when the on_tool_start callback raises: the slot is taken and
   given back by "async with", the exception leaves execute_tool *)
execute_tool_escape(c) ==
    /\ reg_pc[c] = "waiting"
    /\ slot_free
    /\ reg_pc' = [reg_pc EXCEPT ![c] = "raised"]
    /\ reg_events' = [reg_events EXCEPT ![c] = Append(@, "tool_start")]
    /\ UNCHANGED <<sem_value, reg_call, reg_result, reg_body>>

(* The dictionary execute_multiple_tools puts in the place of an exception *)
ExceptionResult(call) ==
    [success |-> FALSE, error |-> "exception message", result |-> <<>>,
     tool |-> call.tool]

(* what asyncio.gather would give if it listed outcomes as they complete *)
gather_as_completed ==
    [i \in 1..Len(multi_calls) |->
        IF reg_pc[multi_finished[i]] = "raised" THEN <<>>
        ELSE reg_result[multi_finished[i]]]

(* asyncio.gather with return_exceptions=True: the outcome of every
   call, in the order of the list; <<>> stands for an exception *)
gather ==
    [i \in 1..Len(multi_calls) |->
        IF reg_pc[i] = "raised" THEN <<>> ELSE reg_result[i]]

(* The loop over the outcomes: exceptions become failed results *)
processed_results(results) ==
    [i \in 1..Len(results) |->
        IF results[i] = <<>> THEN ExceptionResult(multi_calls[i])
        ELSE results[i][1]]

(* execute_multiple_tools up to the gather: one coroutine per call *)
execute_multiple_tools_begin(tool_calls) ==
    /\ multi_pc = "idle"
    /\ multi_calls' = tool_calls
    /\ multi_pc' = "gathering"
    /\ UNCHANGED <<multi_finished, multi_results>>

(* The coroutine of call c is among those the gather waits for *)
gathered(c) == multi_pc = "gathering" /\ c \in 1..Len(multi_calls)

(* The calls that have ended, in the order they ended *)
finished(c) ==
    /\ multi_finished' = IF reg_pc'[c] \in {"done", "raised"}
                         THEN Append(multi_finished, c) ELSE multi_finished
    /\ UNCHANGED <<multi_pc, multi_calls, multi_results>>

(* execute_multiple_tools after the gather: every call has ended *)
execute_multiple_tools_end ==
    /\ multi_pc = "gathering"
    /\ \A c \in 1..Len(multi_calls) : reg_pc[c] \in {"done", "raised"}
    /\ multi_results' = processed_results(gather)
    /\ multi_pc' = "done"
    /\ UNCHANGED <<multi_calls, multi_finished>>

InitMulti ==
    /\ multi_pc = "idle"
    /\ multi_calls = <<>>
    /\ multi_finished = <<>>
    /\ multi_results = <<>>

(* The lists of tool calls given to execute_multiple_tools, of at most
   MaxBatch calls *)
MaxBatch == 3

ToolCalls == SeqsUpTo(CoreInputs, MaxBatch)

MultiBegin ==
    /\ multi_pc = "idle"
    /\ \E tool_calls \in ToolCalls : execute_multiple_tools_begin(tool_calls)
    /\ UNCHANGED regVars

MultiEnter ==
    \E c \in Calls :
        /\ gathered(c)
        /\ execute_tool_enter(c, multi_calls[c])
        /\ finished(c)

MultiAcquire ==
    \E c \in Calls : gathered(c) /\ execute_tool_acquire(c) /\ finished(c)

MultiEscape ==
    \E c \in Calls : gathered(c) /\ execute_tool_escape(c) /\ finished(c)

MultiFinish ==
    \E c \in Calls, raised \in BOOLEAN :
        gathered(c) /\ execute_tool_finish(c, raised) /\ finished(c)

MultiEnd == execute_multiple_tools_end /\ UNCHANGED regVars

NextMulti ==
    \/ MultiBegin /\ UNCHANGED <<tmVars, runVars, parseVars, httpVars, cfgVars, run_count>>
    \/ MultiEnter /\ UNCHANGED <<tmVars, runVars, parseVars, httpVars, cfgVars, run_count>>
    \/ MultiAcquire /\ UNCHANGED <<tmVars, runVars, parseVars, httpVars, cfgVars, run_count>>
    \/ MultiEscape /\ UNCHANGED <<tmVars, runVars, parseVars, httpVars, cfgVars, run_count>>
    \/ MultiFinish /\ UNCHANGED <<tmVars, runVars, parseVars, httpVars, cfgVars, run_count>>
    \/ MultiEnd /\ UNCHANGED <<tmVars, runVars, parseVars, httpVars, cfgVars, run_count>>

----------------------------------------------------------------------------
(* BaseProvider.make_request: one POST per attempt, retried with a growing
   delay *)

(* BaseProvider.__init__: max_retries *)
max_retries == 3

(* What one POST can end in: an answer, a network error (httpx.RequestError),
   a 5xx or a 4xx status (httpx.HTTPStatusError) *)
PostOutcomes == {"ok", "network error", "5xx", "4xx"}

(* _should_retry_error *)
should_retry_error(error) == error \in {"network error", "5xx"}

(* The providers whose call makes the request *)
ProviderNames == {"claude", "gemini", "gpt"}

(* call of a provider calls make_request(url, headers, data): retry_count
   takes its default 0 *)
make_request_begin(provider) ==
    /\ http.pc = "idle"
    /\ http' = [http EXCEPT !.provider = provider, !.pc = "posting",
                            !.retry_count = 0]

(* client.post and raise_for_status: the answer is returned, or the error is
   retried after a delay, or raised *)
make_request_post(outcome) ==
    /\ http.pc = "posting"
    /\ LET should_retry == /\ http.retry_count < max_retries
                           /\ should_retry_error(outcome)
       IN  http' = [http EXCEPT
                       !.attempts = Append(@, outcome),
                       !.pc = IF outcome = "ok" THEN "returned"
                              ELSE IF should_retry THEN "sleeping"
                              ELSE "raised"]

(* After asyncio.sleep(delay): make_request(url, headers, data,
   retry_count + 1) *)
make_request_retry ==
    /\ http.pc = "sleeping"
    /\ http' = [http EXCEPT !.pc = "posting", !.retry_count = @ + 1]

InitHttp ==
    http = [provider |-> None, pc |-> "idle", retry_count |-> 0,
            attempts |-> <<>>]

RequestBegin == \E provider \in ProviderNames : make_request_begin(provider)

RequestPost == \E outcome \in PostOutcomes : make_request_post(outcome)

RequestRetry == make_request_retry

NextRequest ==
    \/ RequestBegin /\ UNCHANGED <<tmVars, regVars, runVars, parseVars, multiVars, cfgVars, run_count>>
    \/ RequestPost /\ UNCHANGED <<tmVars, regVars, runVars, parseVars, multiVars, cfgVars, run_count>>
    \/ RequestRetry /\ UNCHANGED <<tmVars, regVars, runVars, parseVars, multiVars, cfgVars, run_count>>

----------------------------------------------------------------------------
(* Config: the .codesolairc file over the defaults *)

(* A configuration value is a tree, written as the set of its nodes
   <<path, leaf>>: a scalar is one node at the empty path, a dictionary has
   the leaf "{}" at the empty path and its members below.  The leaves are
   JSON's null, booleans, integers and strings, a tuple and a list. *)
CfgDict == "{}"
CfgScalar(leaf) == {<< <<>>, leaf >>}
CfgNone == CfgScalar("null")
CfgEmpty == CfgScalar(CfgDict)
IsDict(t) == << <<>>, CfgDict >> \in t
CfgKeys(t) == {q[1][1] : q \in {r \in t : Len(r[1]) >= 1}}
CfgSub(t, k) == {<<Tail(q[1]), q[2]>> : q \in {r \in t : Len(r[1]) >= 1 /\ r[1][1] = k}}
CfgUnder(k, t) == {<< <<k>> \o q[1], q[2] >> : q \in t}
CfgPut(t, k, v) == (t \ CfgUnder(k, CfgSub(t, k))) \cup CfgUnder(k, v)
CfgLeaf(t) == (CHOOSE q \in t : q[1] = <<>>)[2]

(* Python's truth value, isinstance(v, int) and the integer of a value *)
CfgTruthy(t) == IF IsDict(t) THEN CfgKeys(t) # {} ELSE CfgLeaf(t) \notin {"null", "false", "0"}
CfgIsInt(t) == ~IsDict(t) /\ CfgLeaf(t) \in {"true", "false", "0", "3", "10", "500", "30000"}
CfgInt(t) == CASE CfgLeaf(t) = "true" -> 1 [] CfgLeaf(t) = "3" -> 3 [] CfgLeaf(t) = "10" -> 10 [] CfgLeaf(t) = "500" -> 500 [] CfgLeaf(t) = "30000" -> 30000 [] OTHER -> 0

(* self.default_config, the settings the inputs reach *)
InitialDefaults ==
    CfgEmpty
    \cup CfgUnder("defaultProvider", CfgNone)
    \cup CfgUnder("timeout", CfgScalar("30000"))
    \cup CfgUnder("maxRetries", CfgScalar("3"))
    \cup CfgUnder("outputFormat", CfgScalar("text"))
    \cup CfgUnder("agent", CfgEmpty \cup CfgUnder("enabled", CfgScalar("false"))
                                    \cup CfgUnder("maxActionsPerPrompt", CfgScalar("10")))
    \cup CfgUnder("apiKeys", CfgEmpty)

(* deep_merge with the target's value kept where both have the key *)
deep_merge_target_wins(target, source) ==
    CfgEmpty \cup UNION {
        CfgUnder(key, IF key \in CfgKeys(target) THEN CfgSub(target, key)
                      ELSE CfgSub(source, key))
        : key \in CfgKeys(target) \cup CfgKeys(source)}

(* deep_merge: the source's value wins, except that a dictionary over a
   dictionary is merged member by member *)
RECURSIVE deep_merge(_, _)
deep_merge(target, source) ==
    CfgEmpty \cup UNION {
        CfgUnder(key,
            IF key \notin CfgKeys(source) THEN CfgSub(target, key)
            ELSE IF key \in CfgKeys(target) /\ IsDict(CfgSub(target, key))
                    /\ IsDict(CfgSub(source, key))
                 THEN deep_merge(CfgSub(target, key), CfgSub(source, key))
                 ELSE CfgSub(source, key))
        : key \in CfgKeys(target) \cup CfgKeys(source)}

(* config.get(key): the member, or None *)
CfgGet(t, key) == IF IsDict(t) /\ key \in CfgKeys(t) THEN CfgSub(t, key) ELSE CfgNone

(* validate_config: TRUE when it raises nothing *)
validate_config(config) ==
    LET agent == CfgGet(config, "agent")
    IN  /\ ~(/\ CfgTruthy(CfgGet(config, "defaultProvider"))
             /\ CfgGet(config, "defaultProvider")
                    \notin {CfgScalar(p) : p \in {"claude", "gemini", "gpt"}})
        /\ ~(/\ CfgTruthy(CfgGet(config, "timeout"))
             /\ \/ ~CfgIsInt(CfgGet(config, "timeout"))
                \/ CfgInt(CfgGet(config, "timeout")) < 1000)
        /\ ~(/\ CfgTruthy(CfgGet(config, "maxRetries"))
             /\ \/ ~CfgIsInt(CfgGet(config, "maxRetries"))
                \/ CfgInt(CfgGet(config, "maxRetries")) < 0)
        /\ ~(/\ CfgTruthy(CfgGet(config, "outputFormat"))
             /\ CfgGet(config, "outputFormat")
                    \notin {CfgScalar(f) : f \in {"text", "json", "markdown"}})
        /\ CfgTruthy(agent) =>
               /\ IsDict(agent)     \* agent.get of anything else raises
               /\ ~(/\ CfgGet(agent, "maxActionsPerPrompt") # CfgNone
                    /\ \/ ~CfgIsInt(CfgGet(agent, "maxActionsPerPrompt"))
                       \/ CfgInt(CfgGet(agent, "maxActionsPerPrompt")) < 1)

(* json.dump then json.load: a tuple comes back as a list *)
json_stored(t) == {<<q[1], IF q[2] = "tuple" THEN "list" ELSE q[2]>> : q \in t}

(* No configuration file *)
NoFile == {}

(* load: the file merged over the defaults, or the defaults when there is
   no file or the merged configuration is not valid *)
load_merges(file, defaults) == file # NoFile /\ validate_config(deep_merge(defaults, file))
load(file, defaults) == IF load_merges(file, defaults) THEN deep_merge(defaults, file) ELSE defaults

(* key.split('.') of a key written as its parts and dots *)
RECURSIVE CfgSplit(_)
CfgSplit(key) ==
    IF key = <<>> THEN << "" >>
    ELSE IF Head(key) = "." THEN << "" >> \o CfgSplit(Tail(key))
    ELSE LET rest == CfgSplit(Tail(key))
         IN  <<Head(key) \o Head(rest)>> \o Tail(rest)

(* The traversal of set: missing dictionaries are created on the way, the
   value is stored under the last key; TypeError when the way leads through
   something that is not a dictionary *)
TypeError == {}
RECURSIVE CfgSetAt(_, _, _)
CfgSetAt(t, keys, value) ==
    IF ~IsDict(t) THEN TypeError
    ELSE IF Len(keys) = 1 THEN CfgPut(t, keys[1], value)
    ELSE LET current == IF keys[1] \in CfgKeys(t) THEN CfgSub(t, keys[1]) ELSE CfgEmpty
             below == CfgSetAt(current, Tail(keys), value)
         IN  IF below = TypeError THEN TypeError ELSE CfgPut(t, keys[1], below)

(* The traversal of get: None when a key is missing or the way leads through
   something that is not a dictionary *)
RECURSIVE CfgGetAt(_, _)
CfgGetAt(t, keys) ==
    IF keys = <<>> THEN t
    ELSE IF ~IsDict(t) \/ keys[1] \notin CfgKeys(t) THEN CfgNone
    ELSE CfgGetAt(CfgSub(t, keys[1]), Tail(keys))

(* load copies only the top level: a dictionary of the loaded configuration
   that the file does not replace is the dictionary of default_config
   itself, and set writes into it *)
writes_defaults(file, defaults, keys) ==
    /\ Len(keys) = 2
    /\ keys[1] \in CfgKeys(defaults)
    /\ IsDict(CfgSub(defaults, keys[1]))
    /\ ~load_merges(file, defaults) \/ keys[1] \notin CfgKeys(file)

(* get(key) *)
get(key) == CfgGetAt(load(config_file, default_config), CfgSplit(key))

(* set(key, value): load, store the value, validate, save (merge over the
   defaults, validate, write as JSON) *)
set(key, value) ==
    LET keys == CfgSplit(key)
        config == CfgSetAt(load(config_file, default_config), keys, value)
        defaults == IF config # TypeError /\ writes_defaults(config_file, default_config, keys)
                    THEN CfgSetAt(default_config, keys, value)
                    ELSE default_config
        config_to_save == deep_merge(defaults, config)
        saved == /\ config # TypeError
                 /\ validate_config(config)
                 /\ validate_config(config_to_save)
    IN  /\ default_config' = defaults
        /\ config_file' = IF saved THEN json_stored(config_to_save) ELSE config_file
        /\ config_last' = [op |-> "set", key |-> key, value |-> value, ret |-> saved]

(* reset: the file is deleted *)
reset ==
    /\ config_file' = NoFile
    /\ config_last' = [op |-> "reset", key |-> <<>>, value |-> CfgNone, ret |-> TRUE]
    /\ UNCHANGED default_config

(* Bound of the configuration model: the number of set calls *)
MaxSets == 2

ConfigKeys ==
    { <<"defaultProvider">>, <<"agent">>, <<"agent", ".", "enabled">>,
      <<"agent", ".", "maxActionsPerPrompt">>, <<"apiKeys", ".", "claude">>,
      <<"x", ".", "y">> }

ConfigValues ==
    { CfgScalar("claude"), CfgScalar("true"), CfgScalar("tuple"),
      CfgEmpty, CfgEmpty \cup CfgUnder("enabled", CfgScalar("true")) }

InitConfig ==
    /\ config_file = NoFile
    /\ default_config = InitialDefaults
    /\ config_last = [op |-> "init", key |-> <<>>, value |-> CfgNone, ret |-> TRUE]
    /\ config_sets = 0

ConfigSet ==
    /\ config_sets < MaxSets
    /\ config_sets' = config_sets + 1
    /\ \E key \in ConfigKeys, value \in ConfigValues : set(key, value)

ConfigReset ==
    /\ reset
    /\ UNCHANGED config_sets

NextConfig ==
    \/ ConfigSet /\ UNCHANGED <<tmVars, regVars, runVars, parseVars, multiVars, httpVars, run_count>>
    \/ ConfigReset /\ UNCHANGED <<tmVars, regVars, runVars, parseVars, multiVars, httpVars, run_count>>

Init ==
    InitTM /\ InitReg /\ InitRun /\ InitParse /\ InitMulti /\ InitHttp /\ InitConfig

SpecDecompose == Init /\ [][NextDecompose]_vars
SpecRun == Init /\ [][NextRun]_vars
SpecRuns == Init /\ [][NextRuns]_vars
SpecParse == Init /\ [][NextParse]_vars
SpecTM == Init /\ [][NextTM]_vars

SpecReg == Init /\ [][NextReg]_vars

SpecTool == Init /\ [][NextTool]_vars
SpecMulti == Init /\ [][NextMulti]_vars
SpecRequest == Init /\ [][NextRequest]_vars
SpecConfig == Init /\ [][NextConfig]_vars

(* process_autonomous goes on once it has entered its loop, and every
   _execute_single_task it awaits returns *)
SpecRunsFair ==
    /\ Init
    /\ [][NextLoop]_vars
    /\ WF_vars(RunNext /\ UNCHANGED <<regVars, parseVars, multiVars, httpVars, cfgVars, run_count>>)
    /\ WF_vars(RunsExecute /\ UNCHANGED <<regVars, parseVars, multiVars, httpVars, cfgVars, run_count>>)
    /\ WF_vars(RunFinish /\ UNCHANGED <<regVars, parseVars, multiVars, httpVars, cfgVars, run_count>>)
    /\ WF_vars(RunEnd /\ UNCHANGED <<regVars, parseVars, multiVars, httpVars, cfgVars, run_count>>)

(* The event loop runs every coroutine that can go on, and the bodies of the
   tools end: a waiting call gets a free slot, a body that was entered
   returns or raises *)
SpecRegFair ==
    /\ Init
    /\ [][NextRegInOrder]_vars
    /\ WF_vars(RegAcquire /\ UNCHANGED <<tmVars, runVars, parseVars, multiVars, httpVars, cfgVars, run_count>>)
    /\ WF_vars(RegFinish /\ UNCHANGED <<tmVars, runVars, parseVars, multiVars, httpVars, cfgVars, run_count>>)

(* The event loop runs every coroutine that can go on: a waiting call gets a
   free slot, a subprocess that exits is collected, a timeout that is set
   expires *)
SpecCommand ==
    /\ Init
    /\ [][NextCommand]_vars
    /\ WF_vars(RegAcquire /\ UNCHANGED <<tmVars, runVars, parseVars, multiVars, httpVars, cfgVars, run_count>>)
    /\ WF_vars(RegFinish /\ UNCHANGED <<tmVars, runVars, parseVars, multiVars, httpVars, cfgVars, run_count>>)
    /\ WF_vars(CommandTimeout /\ UNCHANGED <<tmVars, runVars, parseVars, multiVars, httpVars, cfgVars, run_count>>)

----------------------------------------------------------------------------
(* Properties of the task manager *)

(* C1: a task that has reached COMPLETED, FAILED or CANCELLED never changes
   state again, whatever task-manager call comes next. *)
C1_TerminalStatesFinal ==
    [][\A i \in 1..Len(tasks) :
           tasks[i].state \in Terminal => tasks'[i].state = tasks[i].state]_vars

(* C2: start_task on an unknown id, or on a task that is not NOT_STARTED,
   returns False and leaves the tasks (state and started_at), the current
   task, the execution order and the event log as they were. *)
C2_StartRejected ==
    [][(/\ lastCall'.op = "start"
        /\ \/ lastCall'.id \notin TaskIds
           \/ tasks[lastCall'.id].state # NOT_STARTED)
       => /\ lastCall'.ret = FALSE
          /\ UNCHANGED <<tasks, execution_order, current_task_id, tm_events>>]_vars

(* C2 witness: a second start_task on a task that is IN_PROGRESS was refused *)
C2_Witness ==
    /\ lastCall.op = "start"
    /\ lastCall.ret = FALSE
    /\ lastCall.id \in TaskIds
    /\ tasks[lastCall.id].state = IN_PROGRESS
    /\ tasks[lastCall.id].started_at > 0

(* C3: no task goes from NOT_STARTED straight to COMPLETED or FAILED:
   complete_task and fail_task on a NOT_STARTED task leave it NOT_STARTED. *)
C3_CompleteFailOnlyInProgress ==
    [][\A i \in 1..Len(tasks) :
           tasks[i].state = NOT_STARTED
           => tasks'[i].state \in {NOT_STARTED, IN_PROGRESS}]_vars

(* C4: get_next_task is the earliest created task among those still
   NOT_STARTED, and NoId exactly when no task is NOT_STARTED. *)
C4_NextIsEarliestNotStarted ==
    LET waiting == {i \in TaskIds : tasks[i].state = NOT_STARTED}
    IN  IF waiting = {} THEN get_next_task = NoId
        ELSE /\ get_next_task \in waiting
             /\ \A j \in waiting : get_next_task <= j

(* C4 witness: two tasks wait, the later one has the smaller name, and the
   earlier one is the next task *)
C4_Witness ==
    /\ Len(tasks) >= 2
    /\ tasks[1].state = NOT_STARTED /\ tasks[2].state = NOT_STARTED
    /\ tasks[1].name = "b" /\ tasks[2].name = "a"
    /\ get_next_task = 1

----------------------------------------------------------------------------
(* Properties of the tool registry and the tools *)

InBody == {c \in Calls : reg_pc[c] = "body"}

(* C5: never more than max_concurrent tool bodies run at the same time, and
   the free slots are exactly those not taken by a running body. *)
C5_ConcurrencyCap ==
    /\ Cardinality(InBody) <= max_concurrent
    /\ sem_value = max_concurrent - Cardinality(InBody)

(* C5 witness: the cap is reached and one more call waits for a slot *)
C5_Witness ==
    /\ Cardinality(InBody) = max_concurrent
    /\ \E c \in Calls :
           /\ reg_pc[c] = "waiting"
           /\ validate_action(reg_call[c][1].tool, reg_call[c][1].parameters).valid

(* A filesystem call names, as path, source or destination, a path that
   resolves outside every allowed path or carries a blocked extension *)
PathRefused(call) ==
    \E k \in {"path", "source", "destination"} \cap DOMAIN call.parameters :
        LET resolved == Resolve(call.parameters[k])
        IN  \/ \A i \in 1..Len(allowed_paths) :
                   ~relative_to(resolved, Resolve(allowed_paths[i]))
            \/ PathSuffix(resolved) \in blocked_extensions

(* C6: the body of a filesystem tool is never entered for a call whose path,
   source or destination is outside the allowed paths or has a blocked
   extension. *)
C6_RefusedPathNeverReachesBody ==
    \A c \in Calls :
        (/\ reg_call[c] # <<>>
         /\ reg_call[c][1].tool \in FsTools
         /\ PathRefused(reg_call[c][1]))
        => reg_body[c] = "none"

(* C6 witness: a copy_file whose source is allowed and whose destination is
   not has returned without its body having run *)
C6_Witness ==
    /\ reg_pc[1] = "done"
    /\ reg_call[1][1].tool = "copy_file"
    /\ DOMAIN reg_call[1][1].parameters = {"source", "destination"}
    /\ validate_path(reg_call[1][1].parameters.source).valid
    /\ ~validate_path(reg_call[1][1].parameters.destination).valid
    /\ reg_body[1] = "none"

(* C7: when the tool's validation refuses the parameters, execute_tool
   returns success = False with the reason as its error. *)
C7_ValidationFailureIsFailedResult ==
    \A c \in Calls :
        (/\ reg_pc[c] = "done"
         /\ reg_call[c][1].tool \in RegisteredTools
         /\ ~validate_action(reg_call[c][1].tool, reg_call[c][1].parameters).valid)
        => /\ reg_result[c][1].success = FALSE
           /\ reg_result[c][1].error # None

(* C8: when the body of a registered tool raises, execute_tool fires
   on_tool_error and not on_tool_complete, and returns success = False with
   the exception message as its error. *)
C8_BodyExceptionIsFailedResult ==
    \A c \in Calls :
        reg_body[c] = "raised"
        => /\ reg_pc[c] = "done"
           /\ reg_events[c] = <<"tool_start", "tool_error">>
           /\ reg_result[c][1].success = FALSE
           /\ reg_result[c][1].error = "exception message"


(* C9: in an autonomous run the failure of a task does not stop the run:
   when the run is over every decomposed task was executed, in execution
   order, every task is in a terminal state, and the summary counts them;
   a three-task run in which only task 2 failed reports completed=2,
   failed=1, total=3. *)
C9_FailureDoesNotStopRun ==
    (run_pc = "done" /\ run_result.autonomous_mode) =>
        /\ Len(run_log) = Len(task_ids)
        /\ \A i \in 1..Len(task_ids) : run_log[i].id = task_ids[i]
        /\ \A i \in 1..Len(tasks) : tasks[i].state \in Terminal
        /\ (/\ Len(task_ids) = 3
            /\ {i \in 1..3 : ~run_log[i].success} = {2})
           => /\ run_result.tasks_completed = 2
              /\ run_result.tasks_failed = 1
              /\ run_result.total_tasks = 3

C9_Witness ==
    /\ run_pc = "done"
    /\ run_result.autonomous_mode
    /\ Len(task_ids) = 3
    /\ Len(run_log) = 3
    /\ run_log[1].success /\ ~run_log[2].success /\ run_log[3].success
    /\ tasks[3].state = COMPLETED
    /\ run_result.tasks_completed = 2

(* The response holds no "[" followed, anywhere later, by a "]" *)
NoBracketed(response) ==
    ~\E i, j \in 1..Len(response) :
        i < j /\ response[i] = "[" /\ response[j] = "]"

DecompositionFails ==
    \/ decomp.api_key = "missing"
    \/ provider_raises(decomp.api_key, decomp.outcome)
    \/ NoBracketed(decomp.outcome.response)
    \/ ~json_valid(json_match(decomp.outcome.response)[1])

(* C10: decompose_task never raises, and for a request that matches no
   template it returns the empty list when the API key is missing, the
   provider call fails, the response holds no '[...]' substring, or that
   substring is not valid JSON. *)
C10_DecomposeNeverRaises ==
    decomp.called =>
        /\ ~decomp.raised
        /\ (detect_project_type(decomp.request) = None /\ DecompositionFails)
           => decomp.task_ids = <<>>

C10_Witness ==
    /\ decomp.called
    /\ detect_project_type(decomp.request) = None
    /\ decomp.api_key = "valid"
    /\ decomp.outcome.ok
    /\ ~NoBracketed(decomp.outcome.response)
    /\ ~json_valid(json_match(decomp.outcome.response)[1])
    /\ decomp.task_ids = <<>>
    /\ ~decomp.raised

----------------------------------------------------------------------------
(* Properties of the autonomous run *)

(* The errors process_single_prompt can return *)
SingleShotErrors ==
    {None, "API key is required", "Invalid API key format", "provider error"}

(* C11: when the decomposition returned no task, the run falls back to
   single-shot processing: no task is started, and the outcome of the run is
   an outcome of process_single_prompt, not an error of the run itself. *)
C11_EmptyDecompositionFallsBack ==
    (run_pc = "done" /\ decomp.called /\ task_ids = <<>>)
    => /\ run_result.error \in SingleShotErrors
       /\ \A i \in 1..Len(tasks) : tasks[i].state = NOT_STARTED

----------------------------------------------------------------------------
(* Properties of the action parser *)

(* The response holds one block and no imperative phrase *)
SingleBlock(block) ==
    \A i \in 1..Len(block.trailer) :
        ~IsHeader(block.trailer[i]) /\ PhraseKind(block.trailer[i]) = None

(* The parameter map written in the block *)
WrittenParameters(block) ==
    [k \in {block.members[i].key : i \in 1..Len(block.members)} |->
        LET i == CHOOSE j \in 1..Len(block.members) : block.members[j].key = k
        IN  StringValue(block.members[i].text)]

(* C12: a response with exactly one well-formed block of valid JSON and no
   imperative phrase yields exactly one action, with the tool and the
   parameters written in the block; parsing it again yields the same. *)
C12_OneBlockParsesToItsAction ==
    (/\ parse_pc # "idle"
     /\ SingleBlock(parse_input)
     /\ \A i \in 1..Len(parse_input.members) : ~parse_input.members[i].triple)
    => /\ parse_actions =
              <<ParsedAction(parse_input.tool, WrittenParameters(parse_input))>>
       /\ parse_pc = "parsed again" => parse_again = parse_actions

(* A text that can stand between triple quotes: it neither ends with a
   quote nor holds three quotes in a row *)
TripleQuotable(content) ==
    /\ content = <<>> \/ content[Len(content)] # "\""
    /\ \A i \in 1..(Len(content) - 2) : SubSeq(content, i, i + 2) # TripleQuote

(* C13: a block whose content is written between triple quotes yields one
   action whose content is exactly the text between the triple quotes, with
   its newlines, quotes, tabs and backslashes. *)
C13_TripleQuotedContentKept ==
    (/\ parse_pc # "idle"
     /\ SingleBlock(parse_input)
     /\ \E i \in 1..Len(parse_input.members) :
            /\ parse_input.members[i].triple
            /\ TripleQuotable(parse_input.members[i].src))
    => /\ Len(parse_actions) = 1
       /\ parse_actions[1].tool = parse_input.tool
       /\ parse_actions[1].parameters = WrittenParameters(parse_input)


(* C14: a task during whose execution a tool action failed is marked FAILED,
   never COMPLETED, and the run goes on with the next task. *)
C14_FailedActionFailsTask ==
    (/\ run_pc = "loop"
     /\ next_task # NoId
     /\ \E i \in 1..Len(execution_results) :
            action_failed(execution_results[i]))
    => tasks[next_task].state = FAILED


(* C15: with a missing or malformed API key the run aborts with that error
   before anything is done: no provider call, no task started, no tool
   executed. *)
C15_BadKeyAbortsBeforeAnything ==
    (run_pc # "idle" /\ ~run_input.prompt.blank /\ run_input.api_key # "valid")
    => /\ provider_calls = 0
       /\ \A i \in 1..Len(tasks) : tasks[i].state = NOT_STARTED
       /\ execution_results = <<>>
       /\ run_pc = "done"
       /\ ~run_result.success


(* A call of execute_tool that names a tool the registry does not hold *)
Unregistered(call) == call # <<>> /\ call[1].tool \notin RegisteredTools

(* C16: execute_tool with an unregistered tool name returns, in the step that
   makes the call, a failed result naming the tool; it takes no slot, fires
   no event and enters no tool body, then or later. *)
C16_UnregisteredToolAnsweredAtOnce ==
    [][\A c \in Calls :
          /\ (reg_pc[c] = "idle" /\ Unregistered(reg_call'[c]))
             => /\ reg_pc'[c] = "done"
                /\ reg_result'[c] # <<>>
                /\ ~reg_result'[c][1].success
                /\ reg_result'[c][1].tool = reg_call'[c][1].tool
                /\ reg_result'[c][1].error = "Tool not found"
                /\ sem_value' = sem_value
          /\ Unregistered(reg_call'[c])
             => /\ reg_events'[c] = <<>>
                /\ reg_body'[c] = "none"]_vars

(* C16 witness: an unregistered tool was answered while every slot is taken
   by a running body *)
C16_Witness ==
    /\ Cardinality(InBody) = max_concurrent
    /\ \E c \in Calls : Unregistered(reg_call[c]) /\ reg_pc[c] = "done"


(* The results one execute_tool call can return for a tool call *)
ResultsOf(call) ==
    {execute_tool(call.tool, call.parameters, raised) : raised \in BOOLEAN}
    \cup {ExceptionResult(call)}

(* C17: execute_multiple_tools over k tool calls returns exactly k results,
   the result at position i being a result of call i whatever the order of
   completion, and every call is executed and reported even when another one
   failed or raised. *)
C17_OneResultPerCallInOrder ==
    multi_pc = "done"
    => /\ Len(multi_results) = Len(multi_calls)
       /\ \A i \in 1..Len(multi_calls) :
              /\ multi_results[i].tool = multi_calls[i].tool
              /\ multi_results[i] \in ResultsOf(multi_calls[i])
              /\ reg_pc[i] = "done" => multi_results[i] = reg_result[i][1]
              /\ reg_pc[i] = "raised" => multi_results[i] = ExceptionResult(multi_calls[i])
              /\ (/\ multi_calls[i].tool \in RegisteredTools
                  /\ validate_action(multi_calls[i].tool,
                                     multi_calls[i].parameters).valid)
                 => reg_pc[i] = "raised" \/ reg_body[i] \in {"returned", "raised"}

(* C17 witness: three different calls completed in an order other than the
   order of the list, one raised, one was refused and one ran its body *)
C17_Witness ==
    /\ multi_pc = "done"
    /\ Len(multi_calls) >= 3
    /\ multi_finished[1] # 1
    /\ \E i, j, k \in 1..Len(multi_calls) :
           /\ reg_pc[i] = "raised"
           /\ ~multi_results[j].success
           /\ reg_body[k] = "returned"
           /\ multi_calls[j].tool # multi_calls[k].tool


(* C18: a complete_task call that leaves every task COMPLETED, FAILED or
   CANCELLED fires the all-complete event on that call, also when some of
   the tasks are FAILED. *)
C18_AllTerminalFiresAllComplete ==
    [][(/\ lastCall'.op = "complete"
        /\ lastCall'.ret
        /\ tm_events' # tm_events
        /\ \A i \in 1..Len(tasks') : tasks'[i].state \in Terminal)
       => tm_events'[Len(tm_events')] = <<"all_complete", 0>>]_vars

(* The number of times the all-complete event has fired *)
AllCompleteFired ==
    Cardinality({i \in 1..Len(tm_events) : tm_events[i] = <<"all_complete", 0>>})

(* C19: the all-complete event fires at most once for a task set; a set only
   changes by the creation of a task, so it has fired at most as many times
   as there are tasks, and at most once while there is one task. *)
C19_AllCompleteFiresOnce == AllCompleteFired <= Len(tasks)

(* C20: a task that has a child is not in the execution order and is never
   the task get_next_task returns. *)
C20_ParentsAreNotScheduled ==
    \A i \in TaskIds :
        has_subtasks(tasks[i])
        => /\ \A k \in 1..Len(execution_order) : execution_order[k] # i
           /\ get_next_task # i


(* The run decomposed a request that _detect_project_type takes for a Flask
   web application *)
TemplateRun ==
    /\ run_pc # "idle"
    /\ decomp.called
    /\ detect_project_type(run_input.prompt.keywords) = "flask_web_app"

(* C21: the template decomposition of a Flask request calls no provider and
   returns the directory task, one task per template file with that file's
   path and content in its metadata, and the setup task, in that order;
   get_next_task hands them out in that order. *)
C21_TemplateTasksInFixedOrder ==
    TemplateRun
    => LET n == Len(TemplateFiles) + 2
       IN  /\ (run_pc = "loop" /\ run_log = <<>>) => provider_calls = 0
           /\ Len(task_ids) = n
           /\ tasks[task_ids[1]].name = "Create project directory structure"
           /\ tasks[task_ids[n]].name = "Initialize and test the application"
           /\ \A i \in 1..Len(TemplateFiles) :
                  /\ tasks[task_ids[i + 1]].metadata.file_path =
                         <<[abs |-> FALSE, parts |-> TemplateFiles[i]]>>
                  /\ tasks[task_ids[i + 1]].metadata.file_content
                  /\ tasks[task_ids[i + 1]].metadata.template_based
           /\ \A i \in 1..Len(run_log) : run_log[i].id = task_ids[i]
           /\ run_pc \in {"executing", "finishing"}
              => next_task = task_ids[Len(run_log) + 1]
           /\ run_pc = "loop" /\ Len(run_log) < n
              => get_next_task = task_ids[Len(run_log) + 1]

(* C21 witness: the nine template tasks were all handed out and executed *)
C21_Witness ==
    /\ TemplateRun
    /\ run_pc = "done"
    /\ Len(run_log) = Len(TemplateFiles) + 2


(* The command line holds a blocked term or, with an allow-list, starts with
   a command that is not on it *)
Forbidden(command) ==
    \/ \E i \in 1..Len(exec_blocked_commands) :
           Contains(exec_blocked_commands[i], Lower(command))
    \/ /\ exec_allowed_commands # <<>>
       /\ \A i \in 1..Len(exec_allowed_commands) :
              FirstToken(command) # exec_allowed_commands[i]

(* C22: no execution tool whose body runs gives the shell a command line that
   holds a blocked term or whose first token is off a configured allow-list. *)
C22_NoForbiddenCommandReachesShell ==
    \A c \in Calls :
        (reg_body[c] # "none" /\ reg_call[c][1].tool \in ExecTools)
        => LET commands == shell_commands(reg_call[c][1].tool,
                                          reg_call[c][1].parameters)
           IN  \A i \in 1..Len(commands) : ~Forbidden(commands[i])


(* C23: under the agent's default configuration every command has a finite
   timeout, so a call whose subprocess hangs still returns: a call that has
   entered the body of an execution tool always comes back. *)
C23_CommandCallAlwaysReturns ==
    \A c \in Calls : (reg_pc[c] = "body") ~> (reg_pc[c] = "done")


(* C24: with the default max_retries one call of make_request posts at most
   three times, the first attempt included, and posts again only after a
   network error or a 5xx answer. *)
C24_AtMostThreeAttempts ==
    /\ Len(http.attempts) <= 3
    /\ \A i \in 1..(Len(http.attempts) - 1) :
           http.attempts[i] \in {"network error", "5xx"}


(* The tasks of the map that are in state s, counted one task after the
   other *)
RECURSIVE Tally(_, _)
Tally(ts, s) ==
    IF ts = <<>> THEN 0
    ELSE (IF Head(ts).state = s THEN 1 ELSE 0) + Tally(Tail(ts), s)

(* C25: in every reachable state the progress summary is that of the live
   task map: total is the number of tasks created, completed, failed and
   in-progress are the numbers of tasks now in those states, their sum is at
   most total, and the percentage is completed / total * 100, 0 without
   tasks. *)
C25_SummaryIsLive ==
    LET summary == get_progress_summary
        created == Cardinality(DOMAIN tasks)   \* the ids of the map
    IN  /\ summary.total_tasks = created
        /\ summary.completed_tasks = Tally(tasks, COMPLETED)
        /\ summary.failed_tasks = Tally(tasks, FAILED)
        /\ summary.in_progress_tasks = Tally(tasks, IN_PROGRESS)
        /\ summary.completed_tasks + summary.failed_tasks
               + summary.in_progress_tasks <= summary.total_tasks
        /\ IF created = 0 THEN summary.progress_percentage = <<0, 1>>
           ELSE summary.progress_percentage[1] * created
                    = Tally(tasks, COMPLETED) * 100 * summary.progress_percentage[2]

(* Two tasks, one completed and one failed: 50 percent *)
C25_Witness ==
    /\ Len(tasks) = 2
    /\ get_progress_summary.completed_tasks = 1
    /\ get_progress_summary.failed_tasks = 1
    /\ get_progress_summary.progress_percentage = <<100, 2>>


SecondHeader(block) ==
    block.trailer[CHOOSE i \in 1..Len(block.trailer) : IsHeader(block.trailer[i])]

(* C27: a response of two blocks yields the two blocks' actions in order of
   occurrence, each with the parameters written after its own ACTION line,
   also when both blocks name the same tool. *)
C27_EachBlockWithItsParameters ==
    (/\ parse_pc # "idle"
     /\ parse_input.members = <<PathMember>>
     /\ \E i \in 1..Len(parse_input.trailer) : IsHeader(parse_input.trailer[i]))
    => parse_actions =
           <<ParsedAction(parse_input.tool, WrittenParameters(parse_input)),
             ParsedAction(HeaderTool(SecondHeader(parse_input)),
                          [k \in {"path"} |-> StringValue(<<"b.txt">>)])>>


(* The alias keys the parser renames for a tool *)
AliasKeys(tool) ==
    CASE tool = "list_directory" -> {"directory", "hidden"}
      [] tool = "create_directory" -> {"directory_path", "directory"}
      [] tool \in {"read_file", "write_file"} -> {"file", "file_path", "filepath"}
      [] OTHER -> {}

(* C28: every action the parser emits has its tool's aliases renamed to the
   canonical key, and an action of read_file, write_file or create_directory
   is emitted only with a path. *)
C28_EmittedActionsAreNormalized ==
    \A i \in 1..Len(parse_actions) :
        LET action == parse_actions[i]
        IN  /\ DOMAIN action.parameters \cap AliasKeys(action.tool) = {}
            /\ action.tool \in {"read_file", "write_file", "create_directory"}
                   => Truthy(action.parameters, "path")

(* The JSON text written in the block's PARAMETERS, and whether it parses
   neither as it is nor after the repair *)
ParametersText(block) ==
    <<"{">> \o MembersText(block.members, block.separator) \o <<"}">>

Unparsable(block) ==
    /\ ~json_loads_object(ParametersText(block)).ok
    /\ ~json_loads_object(fix_json_content(ParametersText(block))).ok

(* C29: when the JSON of the first block cannot be parsed even after the
   repair, only that action is dropped: the block after it is still
   returned. *)
C29_OnlyTheBadBlockIsDropped ==
    (/\ parse_pc # "idle"
     /\ Unparsable(parse_input)
     /\ \E i \in 1..Len(parse_input.trailer) : IsHeader(parse_input.trailer[i]))
    => parse_actions =
           <<ParsedAction(HeaderTool(SecondHeader(parse_input)),
                          [k \in {"path"} |-> StringValue(<<"b.txt">>)])>>


(* The action the fallback pass makes of the phrase that ends the response *)
PhraseOfTrailer(block) ==
    IF block.trailer = <<"\n", "create file: f.py">>
    THEN <<ParsedAction("write_file",
               [k \in {"path", "content"} |->
                   IF k = "path" THEN StringValue(<<"f.py">>)
                   ELSE StringValue(<<"# Generated file", "\n">>)])>>
    ELSE IF block.trailer = <<"\n", "list directory: src">>
    THEN <<ParsedAction("list_directory", [k \in {"path"} |-> StringValue(<<"src">>)])>>
    ELSE <<>>

(* C30: the fallback pass runs also when the primary pass found an action:
   the result is the block's action followed by the phrase's action, and a
   response that says the same in both styles yields the action twice. *)
C30_FallbackAlwaysAppended ==
    (/\ parse_pc # "idle"
     /\ Len(parse_input.members) = 1
     /\ PhraseOfTrailer(parse_input) # <<>>)
    => parse_actions =
           <<ParsedAction(parse_input.tool, WrittenParameters(parse_input))>>
           \o PhraseOfTrailer(parse_input)

(* list_directory of src as a block and as a phrase: the action twice *)
C30_Witness ==
    /\ parse_pc # "idle"
    /\ parse_input.tool = "list_directory"
    /\ parse_input.trailer = <<"\n", "list directory: src">>
    /\ Len(parse_actions) = 2
    /\ parse_actions[1] = parse_actions[2]
    /\ parse_actions[1] =
           ParsedAction("list_directory", [k \in {"path"} |-> StringValue(<<"src">>)])


----------------------------------------------------------------------------
(* Properties of repeated runs and of the configuration *)

InProgress == {i \in 1..Len(tasks) : tasks[i].state = IN_PROGRESS}

(* C31: task execution is strictly sequential: at most one task is
   IN_PROGRESS, it is the task the loop is executing, and when the loop
   asks for the next task no task is IN_PROGRESS and the task it executed
   last is COMPLETED or FAILED. *)
C31_OneTaskAtATime ==
    /\ Cardinality(InProgress) <= 1
    /\ run_pc \in {"executing", "finishing"} => InProgress = {next_task}
    /\ run_pc \in {"idle", "loop", "done"} => InProgress = {}
    /\ (run_pc = "loop" /\ run_log # <<>>) =>
           tasks[run_log[Len(run_log)].id].state \in {COMPLETED, FAILED}

(* The second task of a second run is being executed *)
C31_Witness ==
    /\ run_count = 1
    /\ run_pc = "executing"
    /\ Len(run_log) = 1
    /\ InProgress = {next_task}

(* The decomposition that ran was the template decomposition of a Flask
   request *)
TemplateDecomposition ==
    /\ decomp.called
    /\ detect_project_type(decomp.request) = "flask_web_app"

(* The tasks of the decomposition that create one template file each *)
FileCreationTasks ==
    {k \in 1..Len(decomp.task_ids) :
         tasks[decomp.task_ids[k]].metadata.file_content}

HtmlTemplates ==
    {k \in FileCreationTasks :
         Head(tasks[decomp.task_ids[k]].metadata.file_path[1].parts) =
             "templates"}

(* C32 as stated: the template decomposition of a Flask request creates six
   file tasks, four of them HTML templates, and eight tasks in total. *)
C32_SixFileTasksEightInTotal ==
    TemplateDecomposition
    => /\ Cardinality(FileCreationTasks) = 6
       /\ Cardinality(HtmlTemplates) = 4
       /\ Len(decomp.task_ids) = 8

(* C32: the template decomposition of a Flask request creates seven file
   tasks, app.py, requirements.txt and the five HTML templates base, index,
   login, register and dashboard, and nine tasks in total. *)
C32_SevenFileTasksNineInTotal ==
    TemplateDecomposition
    => /\ Cardinality(FileCreationTasks) = 7
       /\ Cardinality(HtmlTemplates) = 5
       /\ {tasks[decomp.task_ids[k]].metadata.file_path[1].parts :
               k \in FileCreationTasks} =
          {<<"app.py">>, <<"requirements.txt">>, <<"templates", "base.html">>,
           <<"templates", "index.html">>, <<"templates", "login.html">>,
           <<"templates", "register.html">>,
           <<"templates", "dashboard.html">>}
       /\ Len(decomp.task_ids) = 9
       /\ Len(tasks) = 9

(* C32 witness: a request for a Flask web app with a login was decomposed *)
C32_Witness ==
    /\ TemplateDecomposition
    /\ decomp.request = {"flask", "login"}
    /\ Len(decomp.task_ids) = Len(TemplateFiles) + 2

(* The task the loop finished last went through the prompt, not through the
   template executor *)
LastTaskWasPrompted ==
    /\ run_pc = "loop"
    /\ run_log # <<>>
    /\ LET task == tasks[run_log[Len(run_log)].id]
       IN  ~(task.metadata.template_based /\ task.metadata.file_content)

(* The execution results of the last task where the named tool succeeded:
   the registry and the tool both say success *)
Succeeded(tool) ==
    {i \in 1..Len(execution_results) :
         /\ execution_results[i].tool = tool
         /\ ~action_failed(execution_results[i])}

(* C33: when the loop has finished a task that went through the prompt, the
   result of that task lists one created file for every write_file action
   that succeeded and one command for every execute_command action that
   succeeded. *)
C33_SucceededActionsAreRecorded ==
    LastTaskWasPrompted
    => LET last == run_log[Len(run_log)]
       IN  /\ Len(last.files_created) = Cardinality(Succeeded("write_file"))
           /\ Len(last.commands_executed) =
                  Cardinality(Succeeded("execute_command"))

(* C34: whenever current_task_id is set it names a task in state
   IN_PROGRESS; it takes a new value only in a start_task call that returns
   true, the value being the task started, and it is cleared only by a
   complete_task or fail_task call on the task it named, which every such
   call does. *)
C34_CurrentTaskIsInProgress ==
    /\ [](current_task_id # NoId
          => /\ current_task_id \in TaskIds
             /\ tasks[current_task_id].state = IN_PROGRESS)
    /\ [][/\ (current_task_id' # current_task_id /\ current_task_id' # NoId)
             => lastCall' = [op |-> "start", id |-> current_task_id',
                             ret |-> TRUE]
          /\ (current_task_id' # current_task_id /\ current_task_id' = NoId)
             => /\ lastCall'.op \in {"complete", "fail"}
                /\ lastCall'.id = current_task_id
                /\ lastCall'.ret
          /\ (/\ current_task_id # NoId
              /\ lastCall' # lastCall
              /\ lastCall'.op \in {"complete", "fail"}
              /\ lastCall'.id = current_task_id)
             => current_task_id' = NoId]_vars

(* C34 witness: a second task was started while the first was in progress,
   and the second was completed: no task is current, the first is still in
   progress *)
C34_Witness ==
    /\ Len(tasks) >= 2
    /\ current_task_id = NoId
    /\ lastCall = [op |-> "complete", id |-> 2, ret |-> TRUE]
    /\ tasks[1].state = IN_PROGRESS
    /\ tasks[2].state = COMPLETED

(* The calls that hold a slot of the semaphore: they are in the body of
   their tool *)
Holding == {c \in Calls : reg_pc[c] = "body"}

(* C35: the free slots are max_concurrent less the calls inside a tool body,
   so every call that returned, with a result, a refused validation or an
   exception of the body, has given its slot back and all slots are free
   when no call is inside a body; and when the bodies end, every call that
   waits for a slot gets one: from some moment on no call is waiting. *)
C35_NoSlotLeaks ==
    /\ [](/\ sem_value = max_concurrent - Cardinality(Holding)
          /\ (\A c \in Calls : reg_pc[c] \in {"idle", "done"})
             => sem_value = max_concurrent)
    /\ <>[](\A c \in Calls : reg_pc[c] # "waiting")

(* C35 witness: after a body raised and one returned, the other calls hold
   the slots that these gave back *)
C35_Witness ==
    /\ \E c \in Calls : reg_body[c] = "raised" /\ reg_pc[c] = "done"
    /\ \E c \in Calls : reg_body[c] = "returned" /\ reg_pc[c] = "done"
    /\ Cardinality(Holding) = 2
    /\ sem_value = 1

(* C36: a decompose_task call that returns the empty list leaves the task
   map and the execution order of the task manager as they were. *)
C36_EmptyDecompositionAddsNoTask ==
    [][(/\ ~decomp.called
        /\ decomp'.called
        /\ ~decomp'.raised
        /\ decomp'.task_ids = <<>>)
       => /\ tasks' = tasks
          /\ execution_order' = execution_order]_vars

(* C37: the result of an autonomous run that went through its loop counts
   as completed and failed together as many tasks as the run executed, the
   tasks of its own decomposition, also in a run that follows other runs of
   the same agent. *)
C37_CompletedPlusFailedIsExecuted ==
    (run_pc = "done" /\ run_result.success)
    => run_result.tasks_completed + run_result.tasks_failed =
           run_result.tasks_executed

(* C38: in a template run, the execution of a task with file_content is one
   write_file call of the registry and no provider call, and its result
   follows that call; the execution of the directory task and of the setup
   task, which carry no file_content, goes through process_single_prompt:
   it calls the provider when the key is well formed and fails on the key
   otherwise. *)
C38_OnlyFileTasksUseTheTemplateExecutor ==
    [][(TemplateRun /\ run_pc = "executing" /\ run_pc' = "finishing")
       => LET task == tasks[next_task]
          IN  IF task.metadata.file_content
              THEN /\ provider_calls' = provider_calls
                   /\ Len(execution_results') = 1
                   /\ execution_results'[1].tool = "write_file"
                   /\ task_result'.success = execution_results'[1].success
              ELSE /\ task.name \in {"Create project directory structure",
                                     "Initialize and test the application"}
                   /\ task.metadata.template_based
                   /\ IF run_input.api_key = "valid"
                      THEN provider_calls' = provider_calls + 1
                      ELSE /\ provider_calls' = provider_calls
                           /\ execution_results' = <<>>
                           /\ task_result' =
                                  TaskResult(FALSE, "Invalid API key format")]_vars

(* C38 witness: a template run with a well-formed key is over; the provider
   was called twice, for the directory task and for the setup task, and the
   seven file tasks between them were written from the template *)
C38_Witness ==
    /\ TemplateRun
    /\ run_pc = "done"
    /\ run_input.api_key = "valid"
    /\ Len(run_log) = Len(TemplateFiles) + 2
    /\ provider_calls = 2
    /\ \A i \in 2..(Len(TemplateFiles) + 1) :
           run_log[i].files_created =
               <<[abs |-> FALSE, parts |-> TemplateFiles[i - 1]]>>

(* C39: after a reset that returned true, load returns the built-in default
   configuration, whatever was set before. *)
C39_ResetRestoresTheDefaults ==
    (config_last.op = "reset" /\ config_last.ret)
    => load(config_file, default_config) = InitialDefaults

(* The places of the execution order that hold a NOT_STARTED task *)
NotStartedScheduled ==
    {k \in 1..Len(execution_order) :
         tasks[execution_order[k]].state = NOT_STARTED}

LoopPlaces == {"loop", "executing", "finishing"}

(* The iterations done, the one under way, and those still to come *)
LoopMeasure ==
    Len(run_log) + Cardinality(NotStartedScheduled)
    + (IF run_pc \in {"executing", "finishing"} THEN 1 ELSE 0)

(* C40: an iteration of the loop takes a NOT_STARTED task that no earlier
   iteration took, starts it and leaves it COMPLETED or FAILED; the
   iterations done and the NOT_STARTED tasks still scheduled add up to the
   same number from the beginning of the loop to its exit, and the loop
   exits only when no NOT_STARTED task is scheduled, so it has run once for
   every task that was NOT_STARTED when it began; and when every task
   execution returns, the loop is left. *)
C40_LoopRunsOncePerScheduledTask ==
    /\ [][/\ (run_pc = "loop" /\ run_pc' = "executing")
             => /\ tasks[next_task'].state = NOT_STARTED
                /\ tasks'[next_task'].state = IN_PROGRESS
                /\ \A i \in 1..Len(run_log) : run_log[i].id # next_task'
          /\ (run_pc = "finishing" /\ run_pc' = "loop")
             => /\ tasks'[next_task].state \in {COMPLETED, FAILED}
                /\ Len(run_log') = Len(run_log) + 1
                /\ run_log'[Len(run_log')].id = next_task
          /\ (run_pc \in LoopPlaces /\ run_pc' \in LoopPlaces \cup {"done"})
             => LoopMeasure' = LoopMeasure
          /\ (run_pc = "loop" /\ run_pc' = "done")
             => NotStartedScheduled = {}]_vars
    /\ (run_pc \in LoopPlaces) ~> (run_pc = "done")

(* C40 witness: a run that found a task left by an earlier run next to its
   own has left the loop after an iteration for each *)
C40_Witness ==
    /\ run_count = 1
    /\ run_pc = "done"
    /\ run_result.success
    /\ Len(run_log) = Len(task_ids) + 1
    /\ NotStartedScheduled = {}

====
